---- MODULE Spec2Model ----
(***************************************************************************)
(* A model of the Heartflow plugin (src/main.py): the proactive-reply      *)
(* decision engine of a group-chat bot.                                    *)
(*                                                                         *)
(* Units.  The program computes in floats; the model computes in exact     *)
(* fixed point:                                                            *)
(*   energy, energy rates          hundredths        (1.0  = 100)          *)
(*   favorability (affinity)       1/400 of a point  (100.0 = 40000)       *)
(*   favorability_impact_strength  tenths            (1.0  = 10)           *)
(*   scores                        integers 0..10                          *)
(*   weights                       twentieths        (0.25 = 5)            *)
(*   overall_score, threshold      thousandths       (0.6  = 600)          *)
(*   random.random()               k / DrawSteps, k in 0..DrawSteps-1      *)
(* Dates are day numbers (0 models the empty date string ""); time.time()  *)
(* and date.today() both read the one system clock, which counts days.    *)
(*                                                                         *)
(* asyncio runs the handlers on one thread: a handler runs atomically from *)
(* one await that suspends to the next, so every action below is one such  *)
(* stretch of a handler.                                                   *)
(***************************************************************************)
EXTENDS Integers, Sequences, FiniteSets, TLC

VARIABLES
    cfg,                      \* self.config and the fields __init__ copies from it
    clock,                    \* the system clock
    chat_states,              \* self.chat_states: dict chat_id -> ChatState
    global_favorability,      \* self.global_favorability: dict user_id -> value
    global_interaction_count, \* self.global_interaction_count
    message_buffer,           \* self.message_buffer: dict chat_id -> list
    judging_sessions,         \* self.judging_sessions: set of chat ids
    system_prompt_cache,      \* self.system_prompt_cache: dict key -> entry
    turn,                     \* the on_group_message coroutines in flight
    msgs,                     \* group messages received so far
    appended,                 \* history: every entry _record_message appended
    calc                      \* the last call of a pure helper and its result

vars == <<cfg, clock, chat_states, global_favorability, global_interaction_count,
          message_buffer, judging_sessions, system_prompt_cache, turn, msgs,
          appended, calc>>

ledgerVars == <<chat_states, global_favorability, global_interaction_count>>

----------------------------------------------------------------------------
(* Bounds of the model *)

MaxMsgs == 2
MaxDay == 2
DrawSteps == 4

Chats == {"g1", "g2"}
Users == {"u1", "u2"}
Turns == {1, 2}
Rolls == 0 .. (DrawSteps - 1)

(* Program constants *)

InitialEnergy == 100
EnergyFloor == 10
EnergyCeiling == 100
DailyEnergyRestore == 20
FavMin == 0
FavMax == 40000
FavNeutral == 20000
MentionDelta == 80
MinPersonaLen == 50
MinSummaryLen == 10

Min(a, b) == IF a < b THEN a ELSE b
Max(a, b) == IF a > b THEN a ELSE b

\* datetime.date.today(): the clock counts days
Today == clock

Remove(f, k) == [x \in (DOMAIN f) \ {k} |-> f[x]]
Put(f, k, v) == [x \in (DOMAIN f) \cup {k} |-> IF x = k THEN v ELSE f[x]]
GetOr(f, k, d) == IF k \in DOMAIN f THEN f[k] ELSE d

EmptyMap == [x \in {} |-> 0]

----------------------------------------------------------------------------
(* Configuration *)

DefaultWeights ==
    [relevance |-> 5, willingness |-> 4, social |-> 4, timing |-> 3, continuity |-> 4]

DefaultFavWeights ==
    [relevance |-> 8, social |-> 6, continuity |-> 4, willingness |-> 1, timing |-> 1]

\* a configuration: the plugin enabled, a judge provider named, the other
\* fields at the defaults of __init__ with the two list sizes scaled down
\* (context_messages_count 5 -> 2, max_buffer_size 50 -> 2)
DefaultConfig ==
    [enable_heartflow |-> TRUE,
     judge_provider_name |-> TRUE,
     reply_threshold |-> 600,
     energy_decay_rate |-> 10,
     energy_recovery_rate |-> 2,
     context_messages_count |-> 2,
     whitelist_enabled |-> FALSE,
     chat_whitelist |-> {},
     max_buffer_size |-> 2,
     judge_include_reasoning |-> TRUE,
     enable_favorability |-> FALSE,
     enable_global_favorability |-> FALSE,
     favorability_impact_strength |-> 10,
     favorability_decay_daily |-> 400,
     initial_favorability |-> 4000,
     fav_weights |-> DefaultFavWeights,
     weights |-> DefaultWeights]

----------------------------------------------------------------------------
(* ChatState and the conversation state (section 4.3) *)

ChatState ==
    [energy |-> InitialEnergy,
     last_reply_time |-> 0,
     last_reset_date |-> 0,
     total_messages |-> 0,
     total_replies |-> 0,
     user_favorability |-> EmptyMap,
     user_interaction_count |-> EmptyMap,
     last_favorability_decay |-> 0]

Mem == [cs |-> chat_states, gf |-> global_favorability, gi |-> global_interaction_count]

SetMem(m) ==
    /\ chat_states' = m.cs
    /\ global_favorability' = m.gf
    /\ global_interaction_count' = m.gi

\* faulty variant: the step is not limited to the distance from 50
DecayValueNoMin(current) ==
    IF current > FavNeutral
    THEN current - (cfg.favorability_decay_daily * 3) \div 2
    ELSE IF current < FavNeutral
         THEN current + cfg.favorability_decay_daily * 2
         ELSE current

\* one user's value after one daily decay step
DecayValue(current) ==
    IF current > FavNeutral
    THEN current - Min(current - FavNeutral, (cfg.favorability_decay_daily * 3) \div 2)
    ELSE IF current < FavNeutral
         THEN current + Min(FavNeutral - current, cfg.favorability_decay_daily * 2)
         ELSE current

\* _apply_favorability_decay, entered from _get_chat_state with both dates
\* of chat_id already set to today (its own _get_chat_state call is a no-op)
ApplyFavorabilityDecay(m, chat_id) ==
    LET fav == m.cs[chat_id].user_favorability
        local == [u \in DOMAIN fav |-> DecayValue(fav[u])]
        glob == IF cfg.enable_global_favorability
                THEN [u \in DOMAIN m.gf |-> DecayValue(m.gf[u])]
                ELSE m.gf
    IN [m EXCEPT !.cs[chat_id].user_favorability = local, !.gf = glob]

DailyTickEnergy(energy) == Min(EnergyCeiling, energy + DailyEnergyRestore)

\* faulty variant: the decay runs on every access, without the date check
GetChatStateDecayEveryAccess(m, chat_id) ==
    LET cs0 == IF chat_id \in DOMAIN m.cs THEN m.cs ELSE Put(m.cs, chat_id, ChatState)
        s0 == cs0[chat_id]
        s1 == IF s0.last_reset_date # Today
              THEN [s0 EXCEPT !.last_reset_date = Today,
                              !.energy = DailyTickEnergy(s0.energy)]
              ELSE s0
        s2 == IF cfg.enable_favorability
              THEN [s1 EXCEPT !.last_favorability_decay = Today] ELSE s1
        m1 == [m EXCEPT !.cs = Put(cs0, chat_id, s2)]
    IN IF cfg.enable_favorability THEN ApplyFavorabilityDecay(m1, chat_id) ELSE m1

GetChatState(m, chat_id) ==
    LET cs0 == IF chat_id \in DOMAIN m.cs THEN m.cs ELSE Put(m.cs, chat_id, ChatState)
        s0 == cs0[chat_id]
        s1 == IF s0.last_reset_date # Today
              THEN [s0 EXCEPT !.last_reset_date = Today,
                              !.energy = DailyTickEnergy(s0.energy)]
              ELSE s0
        needDecay == cfg.enable_favorability /\ s1.last_favorability_decay # Today
        s2 == IF needDecay THEN [s1 EXCEPT !.last_favorability_decay = Today] ELSE s1
        m1 == [m EXCEPT !.cs = Put(cs0, chat_id, s2)]
    IN IF needDecay THEN ApplyFavorabilityDecay(m1, chat_id) ELSE m1

\* faulty variant: no floor under the energy
ActiveEnergyNoFloor(energy) == energy - cfg.energy_decay_rate

\* faulty variant: the decay rate is not subtracted
ActiveEnergyKeep(energy) == Max(EnergyFloor, energy)

ActiveEnergy(energy) == Max(EnergyFloor, energy - cfg.energy_decay_rate)

PassiveEnergy(energy) == Min(EnergyCeiling, energy + cfg.energy_recovery_rate)

\* faulty variant: the reply counted without the message it answers
UpdateActiveStateRepliesOnly(m, chat_id) ==
    LET m1 == GetChatState(m, chat_id)
        s == m1.cs[chat_id]
    IN [m1 EXCEPT !.cs[chat_id] =
            [s EXCEPT !.last_reply_time = clock,
                      !.total_replies = s.total_replies + 1,
                      !.energy = ActiveEnergy(s.energy)]]

UpdateActiveState(m, chat_id) ==
    LET m1 == GetChatState(m, chat_id)
        s == m1.cs[chat_id]
    IN [m1 EXCEPT !.cs[chat_id] =
            [s EXCEPT !.last_reply_time = clock,
                      !.total_replies = s.total_replies + 1,
                      !.total_messages = s.total_messages + 1,
                      !.energy = ActiveEnergy(s.energy)]]

\* faulty variant: a turn without a reply counted as a reply
UpdatePassiveStateCountsReply(m, chat_id) ==
    LET m1 == GetChatState(m, chat_id)
        s == m1.cs[chat_id]
    IN [m1 EXCEPT !.cs[chat_id] =
            [s EXCEPT !.total_messages = s.total_messages + 1,
                      !.total_replies = s.total_replies + 1,
                      !.energy = PassiveEnergy(s.energy)]]

\* _update_passive_state up to its log line
UpdatePassiveState(m, chat_id) ==
    LET m1 == GetChatState(m, chat_id)
        s == m1.cs[chat_id]
    IN [m1 EXCEPT !.cs[chat_id] =
            [s EXCEPT !.total_messages = s.total_messages + 1,
                      !.energy = PassiveEnergy(s.energy)]]

----------------------------------------------------------------------------
(* Affinity ledger (section 4.4) *)

\* whitelist disabled, or the chat is listed (an empty whitelist lists nothing)
Eligible(chat_id) == ~cfg.whitelist_enabled \/ chat_id \in cfg.chat_whitelist

\* faulty variant: the global value is used in a chat outside the whitelist
UseGlobalAnyChat(m, chat_id, user_id) ==
    cfg.enable_global_favorability /\ user_id \in DOMAIN m.gf

UseGlobal(m, chat_id, user_id) ==
    cfg.enable_global_favorability /\ Eligible(chat_id) /\ user_id \in DOMAIN m.gf

\* the memory after _get_user_favorability (it reads the local value through
\* _get_chat_state, which creates and ticks the chat's state)
GetUserFavorabilityMem(m, chat_id, user_id) ==
    IF ~cfg.enable_favorability \/ UseGlobal(m, chat_id, user_id)
    THEN m
    ELSE GetChatState(m, chat_id)

\* the value _get_user_favorability returns
GetUserFavorability(m, chat_id, user_id) ==
    IF ~cfg.enable_favorability
    THEN cfg.initial_favorability
    ELSE IF UseGlobal(m, chat_id, user_id)
         THEN m.gf[user_id]
         ELSE GetOr(GetChatState(m, chat_id).cs[chat_id].user_favorability,
                    user_id, cfg.initial_favorability)

\* quality_score in two-hundredths: sum of score/10 * weight
QualityScore(r) ==
    r.relevance * cfg.fav_weights.relevance
    + r.social * cfg.fav_weights.social
    + r.continuity * cfg.fav_weights.continuity
    + r.willingness * cfg.fav_weights.willingness
    + r.timing * cfg.fav_weights.timing

\* the segment of lines 902-916 that maps quality q (two-hundredths):
\* 5 for q > 0.8, 4 for q > 0.6, 3 for q > 0.4, 2 for q > 0.2, else 1
SegmentOf(q) ==
    IF q > 160 THEN 5 ELSE IF q > 120 THEN 4 ELSE IF q > 80 THEN 3
    ELSE IF q > 40 THEN 2 ELSE 1

\* faulty variant: the lowest segment rising by 5.0 in place of 2.5
SegmentValueSteepFirst(k, q) ==
    CASE k = 5 -> 800 + (q - 160) * 10
      [] k = 4 -> 320 + (q - 120) * 12
      [] k = 3 -> (q - 80) * 18 - 400
      [] k = 2 -> (q - 40) * 15 - 1000
      [] OTHER -> q * 50 - 2000

\* faulty variant: the middle segment with slope 1.5 in place of 1.8
SegmentValueFlatMiddle(k, q) ==
    CASE k = 5 -> 800 + (q - 160) * 10
      [] k = 4 -> 320 + (q - 120) * 12
      [] k = 3 -> (q - 80) * 15 - 400
      [] k = 2 -> (q - 40) * 15 - 1000
      [] OTHER -> q * 25 - 2000

\* the formula of segment k at quality q, in 1/400 points
SegmentValue(k, q) ==
    CASE k = 5 -> 800 + (q - 160) * 10
      [] k = 4 -> 320 + (q - 120) * 12
      [] k = 3 -> (q - 80) * 18 - 400
      [] k = 2 -> (q - 40) * 15 - 1000
      [] OTHER -> q * 25 - 2000

\* the five-segment map of quality (two-hundredths) to delta (1/400 points)
SegmentDelta(q) == SegmentValue(SegmentOf(q), q)

\* lines 919-925: +0.3 after a reply, -0.2 without one when quality > 0.5
OutcomeCorrection(q, delta, did_reply) ==
    IF did_reply THEN delta + 120
    ELSE IF q > 100 THEN delta - 80 ELSE delta

CalculateFavorabilityChange(r, did_reply) ==
    IF ~cfg.enable_favorability
    THEN 0
    ELSE LET q == QualityScore(r)
             delta == OutcomeCorrection(q, SegmentDelta(q), did_reply)
         IN Max(0 - 2000, Min(2000, delta))

\* faulty variant: the value is capped at 100 but not held at 0
ClampFavUpperOnly(v) == Min(FavMax, v)

ClampFav(v) == Max(FavMin, Min(FavMax, v))

\* faulty variant: the global record is set to the new local value
UpdateFavorabilityGlobalFromLocal(m, chat_id, user_id, delta) ==
    IF ~cfg.enable_favorability
    THEN m
    ELSE LET m1 == GetChatState(m, chat_id)
             fav == m1.cs[chat_id].user_favorability
             current == GetOr(fav, user_id, cfg.initial_favorability)
             m2 == [m1 EXCEPT !.cs[chat_id].user_favorability =
                                 Put(fav, user_id, ClampFav(current + delta))]
         IN IF cfg.enable_global_favorability /\ Eligible(chat_id)
            THEN [m2 EXCEPT !.gf = Put(m2.gf, user_id, ClampFav(current + delta))]
            ELSE m2

UpdateFavorability(m, chat_id, user_id, delta) ==
    IF ~cfg.enable_favorability
    THEN m
    ELSE LET m1 == GetChatState(m, chat_id)
             fav == m1.cs[chat_id].user_favorability
             current == GetOr(fav, user_id, cfg.initial_favorability)
             m2 == [m1 EXCEPT !.cs[chat_id].user_favorability =
                                 Put(fav, user_id, ClampFav(current + delta))]
         IN IF cfg.enable_global_favorability /\ Eligible(chat_id)
            THEN [m2 EXCEPT !.gf =
                     Put(m2.gf, user_id,
                         ClampFav(GetOr(m2.gf, user_id, cfg.initial_favorability) + delta))]
            ELSE m2

RecordInteraction(m, chat_id, user_id) ==
    IF ~cfg.enable_favorability
    THEN m
    ELSE LET m1 == GetChatState(m, chat_id)
             cnt == m1.cs[chat_id].user_interaction_count
             m2 == [m1 EXCEPT !.cs[chat_id].user_interaction_count =
                                 Put(cnt, user_id, GetOr(cnt, user_id, 0) + 1)]
         IN IF cfg.enable_global_favorability /\ Eligible(chat_id)
            THEN [m2 EXCEPT !.gi = Put(m2.gi, user_id, GetOr(m2.gi, user_id, 0) + 1)]
            ELSE m2

----------------------------------------------------------------------------
(* Decision policy (section 4.6) *)

\* probabilities are numerators over ProbDen
ProbDen == 10 * FavMax

\* faulty variant: the enable_favorability check of line 1021 left out
CalculateReplyProbabilityAlways(favorability) ==
    Max(0, Min(ProbDen,
        ProbDen - (FavMax - favorability) * cfg.favorability_impact_strength))

\* faulty variant: the impact strength of line 1031 left out
CalculateReplyProbabilityFull(favorability) ==
    IF ~cfg.enable_favorability
    THEN ProbDen
    ELSE Max(0, Min(ProbDen, favorability * 10))

CalculateReplyProbability(favorability) ==
    IF ~cfg.enable_favorability
    THEN ProbDen
    ELSE Max(0, Min(ProbDen,
             ProbDen - (FavMax - favorability) * cfg.favorability_impact_strength))

\* random_roll <= reply_probability, with random_roll = roll / DrawSteps
RollPasses(roll, reply_probability) == roll * ProbDen <= reply_probability * DrawSteps

----------------------------------------------------------------------------
(* Message buffer (section 4.1) *)

\* list[-n:]: the last n elements for n > 0; for n <= 0 it is list[k:] with
\* k = -n, which drops the first k elements (none of them for n = 0)
LastN(list, n) ==
    IF n > 0
    THEN IF Len(list) > n THEN SubSeq(list, Len(list) - n + 1, Len(list)) ELSE list
    ELSE SubSeq(list, 1 - n, Len(list))

\* (the timestamp of an entry is never read, and is left out)
RecordMessage(buf, chat_id, role, content) ==
    LET old == GetOr(buf, chat_id, <<>>)
        new == Append(old, [role |-> role, content |-> content])
    IN Put(buf, chat_id,
           IF Len(new) > cfg.max_buffer_size
           THEN LastN(new, cfg.max_buffer_size)
           ELSE new)

\* the history of the appends of _record_message (not a field of the program)
Appended(log, chat_id, role, content) ==
    Put(log, chat_id, Append(GetOr(log, chat_id, <<>>), [role |-> role, content |-> content]))

\* the tag _get_recent_contexts puts before the content for the judge model
Label(role, add_labels) ==
    IF ~add_labels THEN "none" ELSE IF role = "user" THEN "peer_message" ELSE "my_reply"

\* faulty variant: the first context_messages_count entries are taken
GetRecentContextsOldest(buf, chat_id, add_labels) ==
    LET buffer_messages == GetOr(buf, chat_id, <<>>)
        recent_messages ==
            IF Len(buffer_messages) > cfg.context_messages_count
            THEN SubSeq(buffer_messages, 1, cfg.context_messages_count)
            ELSE buffer_messages
        filtered == SelectSeq(recent_messages,
                              LAMBDA msg : msg.role \in {"user", "assistant"})
    IN [i \in 1 .. Len(filtered) |->
           [role |-> filtered[i].role, content |-> filtered[i].content,
            label |-> Label(filtered[i].role, add_labels)]]

\* _get_recent_contexts (a buffered content is never empty)
GetRecentContexts(buf, chat_id, add_labels) ==
    LET buffer_messages == GetOr(buf, chat_id, <<>>)
        recent_messages ==
            IF Len(buffer_messages) > cfg.context_messages_count
            THEN LastN(buffer_messages, cfg.context_messages_count)
            ELSE buffer_messages
        filtered == SelectSeq(recent_messages,
                              LAMBDA msg : msg.role \in {"user", "assistant"})
    IN [i \in 1 .. Len(filtered) |->
           [role |-> filtered[i].role, content |-> filtered[i].content,
            label |-> Label(filtered[i].role, add_labels)]]

----------------------------------------------------------------------------
(* Judge client (section 4.5) *)

NonStr == "<not a string>"

JudgeResult ==
    [relevance |-> 0, willingness |-> 0, social |-> 0, timing |-> 0, continuity |-> 0,
     reasoning |-> "", should_reply |-> FALSE, overall_score |-> 0]

\* the locals of _do_judge that decide should_reply
NoLocals ==
    [parsed |-> FALSE, meets_threshold |-> FALSE, reply_probability |-> ProbDen,
     random_roll |-> 0]

\* faulty variant: a failed judgment that defaults to replying
FailOpen(reasoning) == [JudgeResult EXCEPT !.reasoning = reasoning, !.should_reply = TRUE]

FailClosed(reasoning) == [JudgeResult EXCEPT !.reasoning = reasoning]

Uniform(s) ==
    [relevance |-> s, willingness |-> s, social |-> s, timing |-> s, continuity |-> s]

ScoreVectors ==
    {Uniform(0), Uniform(5), Uniform(6), Uniform(10),
     [relevance |-> 10, willingness |-> 2, social |-> 8, timing |-> 4, continuity |-> 0]}

\* A completion text: what wraps the body, what the body is, and, for a JSON
\* object, its scores and the type of its "reasoning" value.
\*   fence: "none", "json" (starts with ```json), "bare" (starts with ```),
\*          "prose" (a fenced body after some leading text)
\*   body:  "garbage" (no JSON), "array" (JSON, no object),
\*          "badobject" (an object with a score that is no number), "object"
Completion(fence, body, scores, reasoning) ==
    [fence |-> fence, body |-> body, scores |-> scores, reasoning |-> reasoning]

JudgeCompletions ==
    {Completion(f, "object", s, "text") : f \in {"none", "json"}, s \in ScoreVectors}
    \cup {Completion("none", "object", s, r) : s \in {Uniform(0), Uniform(10)},
                                               r \in {"", NonStr}}
    \cup {Completion("bare", "object", Uniform(10), "text"),
          Completion("prose", "object", Uniform(10), "text"),
          Completion("none", "garbage", Uniform(0), ""),
          Completion("json", "garbage", Uniform(0), ""),
          Completion("none", "array", Uniform(0), ""),
          Completion("none", "badobject", Uniform(10), "text")}

\* what a completion text is, read as the spec reads it (optional code-fence
\* markers around a JSON value)
CompletionKind(text) ==
    IF text.fence = "prose" \/ text.body = "garbage" THEN "invalid_json"
    ELSE IF text.body = "array" THEN "not_object"
    ELSE IF text.body = "badobject" THEN "bad_scores"
    ELSE "object"

\* text_chat either raises or returns a completion
JudgeResponses ==
    {[raises |-> TRUE, text |-> Completion("none", "garbage", Uniform(0), "")]}
    \cup {[raises |-> FALSE, text |-> c] : c \in JudgeCompletions}

\* lines 434-437: a leading ```json or ``` marker is removed with every ```
StripFence(content) ==
    IF content.fence \in {"json", "bare"} THEN [content EXCEPT !.fence = "none"] ELSE content

\* json.loads raises JSONDecodeError
JsonDecodeError(content) == content.fence # "none" \/ content.body = "garbage"

\* lines 442-455: .get on the loaded value, then arithmetic on the scores
ScoresRaise(content) == content.body \in {"array", "badobject"}

\* overall_score in thousandths, with the weights normalized by __init__
OverallScore(scores) ==
    LET w == cfg.weights
        sum == w.relevance + w.willingness + w.social + w.timing + w.continuity
    IN ((scores.relevance * w.relevance + scores.willingness * w.willingness
         + scores.social * w.social + scores.timing * w.timing
         + scores.continuity * w.continuity) * 100) \div sum

MeetsThreshold(overall_score) == overall_score >= cfg.reply_threshold

\* lines 457-468 on a parsed judgment
DecideLocals(overall_score, user_fav, roll) ==
    IF MeetsThreshold(overall_score)
    THEN [parsed |-> TRUE, meets_threshold |-> TRUE,
          reply_probability |-> CalculateReplyProbability(user_fav),
          random_roll |-> roll]
    ELSE [parsed |-> TRUE, meets_threshold |-> FALSE,
          reply_probability |-> ProbDen, random_roll |-> 0]

\* faulty variant: the roll decides without the threshold
ShouldReplyRollOnly(locals) == RollPasses(locals.random_roll, locals.reply_probability)

ShouldReply(locals) ==
    locals.meets_threshold /\ RollPasses(locals.random_roll, locals.reply_probability)

\* Exceptions are "none", "JSONDecodeError" (a subclass of Exception) and
\* "Exception" (any other subclass of Exception).
\* faulty variant: handlers that catch json.JSONDecodeError only
NarrowCatches(clause, exc) == exc = "JSONDecodeError" /\ clause = "JSONDecodeError"

Catches(clause, exc) == exc # "none" /\ (clause = "Exception" \/ clause = exc)

\* lines 423-486: what the body of the inner try raises on the response
AttemptException(resp) ==
    IF resp.raises THEN "Exception"
    ELSE IF JsonDecodeError(StripFence(resp.text)) THEN "JSONDecodeError"
    ELSE IF ScoresRaise(resp.text) THEN "Exception"
    ELSE "none"

\* the exception that leaves _do_judge: lines 488 and 493 catch
JudgeEscapes(resp) ==
    LET exc == AttemptException(resp)
    IN IF Catches("JSONDecodeError", exc) \/ Catches("Exception", exc) THEN "none" ELSE exc

JudgeLocals(resp, user_fav, roll) ==
    IF AttemptException(resp) # "none"
    THEN NoLocals
    ELSE DecideLocals(OverallScore(resp.text.scores), user_fav, roll)

\* lines 422-495: the one attempt of _do_judge on the judge model's response
JudgeOutcome(resp, user_fav, roll) ==
    LET exc == AttemptException(resp)
        sc == resp.text.scores
    IN IF Catches("JSONDecodeError", exc) THEN FailClosed("json_parse_failed")
       ELSE IF Catches("Exception", exc) THEN FailClosed("exception")
       ELSE [relevance |-> sc.relevance, willingness |-> sc.willingness,
             social |-> sc.social, timing |-> sc.timing, continuity |-> sc.continuity,
             reasoning |-> IF cfg.judge_include_reasoning THEN resp.text.reasoning ELSE "",
             should_reply |-> ShouldReply(JudgeLocals(resp, user_fav, roll)),
             overall_score |-> OverallScore(sc)]

\* lines 297-309: the configuration errors, before any state is read
\* lookup is what get_provider_by_id does: "ok", "none" or "raise"
ProviderLookups == {"ok", "none", "raise"}

\* faulty variant: the "provider not found" check of line 304 left out
ConfigErrorRaiseOnly(lookup) == ~cfg.judge_provider_name \/ lookup = "raise"

ConfigError(lookup) == ~cfg.judge_provider_name \/ lookup # "ok"

\* the lookup is made only when a provider name is configured
LookupDone(lookup) == IF cfg.judge_provider_name THEN lookup ELSE "not_called"

ConfigErrorResult(lookup) ==
    IF ~cfg.judge_provider_name THEN FailClosed("provider_not_configured")
    ELSE IF lookup = "none" THEN FailClosed("provider_not_found")
    ELSE FailClosed("provider_lookup_failed")

----------------------------------------------------------------------------
(* on_group_message *)

IdleTurn ==
    [pc |-> "idle", chat |-> "g1", user |-> "u1", msg |-> 0, wake |-> FALSE,
     calls |-> 0, sum_calls |-> 0, result |-> JudgeResult, locals |-> NoLocals,
     user_fav |-> 0, original |-> "", persona |-> "", key |-> "",
     outcome |-> "none", caught |-> FALSE, raised |-> FALSE,
     \* what the collaborators did in this turn: the answer of the provider
     \* lookup of line 303, the lookups and calls that raised, and what the
     \* judge's completion text was
     lookup |-> "not_called", faults |-> {}, completion |-> "none",
     \* how the summarization of this turn ended ("none": not attempted)
     summary |-> "none",
     \* the contexts given to the judge's text_chat, and what on_llm_resp did
     \* with the reply the host produced for this event
     context |-> <<>>, reply |-> "none", reply_text |-> ""]

MessageKinds == {"text", "empty", "media", "self"}

\* a coroutine that has returned: its locals are gone, the event and what the
\* judge decided stay observable
Finished(e, outcome) ==
    [e EXCEPT !.pc = "done", !.outcome = outcome, !.msg = 0,
              !.original = "", !.persona = "", !.key = "", !.context = <<>>,
              !.summary = "none"]

\* faulty variant: a judgment without scores leaves the ledger alone
ApplyFavorabilityScoredOnly(m, chat_id, user_id, result, did_reply) ==
    IF cfg.enable_favorability /\ (did_reply \/ result.overall_score > 0)
    THEN RecordInteraction(
             UpdateFavorability(m, chat_id, user_id,
                                CalculateFavorabilityChange(result, did_reply)),
             chat_id, user_id)
    ELSE m

\* lines 583-587 and 595-599
ApplyFavorability(m, chat_id, user_id, result, did_reply) ==
    IF cfg.enable_favorability
    THEN RecordInteraction(
             UpdateFavorability(m, chat_id, user_id,
                                CalculateFavorabilityChange(result, did_reply)),
             chat_id, user_id)
    ELSE m

\* lines 578-599: what on_group_message does with the judge's result; the log
\* line of _update_passive_state slices result.reasoning, which raises when
\* the model sent a "reasoning" that is no string
ApplyOutcome(m, chat_id, user_id, result) ==
    IF result.should_reply
    THEN [mem |-> ApplyFavorability(UpdateActiveState(m, chat_id),
                                    chat_id, user_id, result, TRUE),
          exc |-> "none"]
    ELSE IF result.reasoning = NonStr
         THEN [mem |-> UpdatePassiveState(m, chat_id), exc |-> "Exception"]
         ELSE [mem |-> ApplyFavorability(UpdatePassiveState(m, chat_id),
                                         chat_id, user_id, result, FALSE),
               exc |-> "none"]

OutcomeOf(result, locals) ==
    IF result.should_reply THEN "accept"
    ELSE IF locals.parsed THEN "reject" ELSE "failed"

\* lines 574-604 once judge_with_tiny_model has returned result
Judged(t, e, m, result, locals) ==
    LET out == ApplyOutcome(m, e.chat, e.user, result)
    IN /\ SetMem(out.mem)
       /\ judging_sessions' = judging_sessions \ {e.chat}
       /\ turn' = [turn EXCEPT ![t] =
                     [Finished(e, OutcomeOf(result, locals)) EXCEPT
                               !.result = result, !.locals = locals,
                               !.wake = e.wake \/ result.should_reply,
                               !.caught = Catches("Exception", out.exc),
                               !.raised = out.exc # "none"
                                          /\ ~Catches("Exception", out.exc)]]

\* the stretch of _do_judge from line 356 to the await of text_chat at line 425,
\* reached with the persona prompt the judge is given
CallJudge(t, e, persona_system_prompt) ==
    LET user_fav == GetUserFavorability(Mem, e.chat, e.user)
        m1 == GetUserFavorabilityMem(Mem, e.chat, e.user)
        m2 == GetChatState(m1, e.chat)
    IN /\ SetMem(m2)
       /\ turn' = [turn EXCEPT ![t] =
                     [e EXCEPT !.pc = "judge", !.persona = persona_system_prompt,
                               !.user_fav = user_fav, !.calls = e.calls + 1,
                               !.context = GetRecentContexts(message_buffer, e.chat, TRUE)]]

\* faulty variant: the mention counted as a message of the conversation
MentionUpdateCountsMessage(m, chat_id, user_id) ==
    UpdatePassiveState(m, chat_id)

\* lines 559-564: what a mention or wake command changes
MentionUpdate(m, chat_id, user_id) ==
    IF cfg.enable_favorability /\ Eligible(chat_id)
    THEN RecordInteraction(UpdateFavorability(m, chat_id, user_id, MentionDelta),
                           chat_id, user_id)
    ELSE m

\* on_group_message up to its first await that suspends
OnGroupMessage(t, chat_id, user_id, kind, wake, lookup) ==
    /\ turn[t].pc \in {"idle", "done"}
    /\ msgs < MaxMsgs
    /\ msgs' = msgs + 1
    /\ LET e == [IdleTurn EXCEPT !.chat = chat_id, !.user = user_id,
                                 !.msg = msgs + 1, !.wake = wake]
       IN IF ~cfg.enable_heartflow \/ ~Eligible(chat_id) \/ kind # "text"
          THEN \* lines 502-548: disabled, not whitelisted, own message, media
               \* with recognition off, empty text
               /\ turn' = [turn EXCEPT ![t] = Finished(e, "skipped")]
               /\ UNCHANGED <<ledgerVars, message_buffer, appended, judging_sessions>>
          ELSE /\ message_buffer' =
                     RecordMessage(message_buffer, chat_id, "user",
                                   [sender |-> user_id, text |-> msgs + 1])
               /\ appended' = Appended(appended, chat_id, "user",
                                       [sender |-> user_id, text |-> msgs + 1])
               /\ IF wake
                  THEN \* lines 556-566: mention or wake command
                       /\ SetMem(MentionUpdate(Mem, chat_id, user_id))
                       /\ turn' = [turn EXCEPT ![t] = Finished(e, "host_handled")]
                       /\ UNCHANGED judging_sessions
                  ELSE IF ConfigError(lookup)
                  THEN Judged(t, [e EXCEPT !.lookup = LookupDone(lookup)], Mem,
                              ConfigErrorResult(lookup), NoLocals)
                  ELSE \* lines 312-315: state read, then the host is awaited
                       /\ SetMem(GetChatState(Mem, chat_id))
                       /\ judging_sessions' = judging_sessions \cup {chat_id}
                       /\ turn' = [turn EXCEPT ![t] =
                                     [e EXCEPT !.pc = "persona",
                                               !.lookup = LookupDone(lookup)]]
    /\ UNCHANGED <<cfg, calc, clock, system_prompt_cache>>

----------------------------------------------------------------------------
(* Persona prompt cache (section 4.2) *)

\* persona texts (by length after strip) and summaries
PersonaTexts == {"", "short persona", "long persona A", "long persona B"}

PersonaLen(text) ==
    CASE text = "" -> 0
      [] text = "short persona" -> 13
      [] text = "long persona A" -> 120
      [] text = "long persona B" -> 200
      [] text = "tiny" -> 4
      [] text = "summary A" -> 60
      [] text = "summary B" -> 80
      [] OTHER -> 0

\* _get_persona_system_prompt: the host's persona text, "" when a lookup raises
PersonaLookups ==
    {[raises |-> TRUE, text |-> ""]} \cup {[raises |-> FALSE, text |-> x] : x \in PersonaTexts}

GetPersonaSystemPrompt(lookup) ==
    IF Catches("Exception", IF lookup.raises THEN "Exception" ELSE "none")
    THEN ""
    ELSE lookup.text

\* what the conversation manager answers in _get_or_create_summarized_system_prompt:
\* it raises, has no current conversation, or gives the cache key
CacheKeys == {"cid1_default"}
ConversationLookups == {"raise", "none"} \cup CacheKeys

\* the summarizer's completion: body as for the judge; summary is the value
\* of "summarized_persona" ("" when the key is missing)
SummaryResponses ==
    {[raises |-> TRUE, fence |-> "none", body |-> "garbage", summary |-> ""]}
    \cup {[raises |-> FALSE, fence |-> f, body |-> "object", summary |-> x] :
             f \in {"none", "json"}, x \in {"", "tiny", "summary A", "summary B"}}
    \cup {[raises |-> FALSE, fence |-> "none", body |-> b, summary |-> ""] :
             b \in {"garbage", "array"}}
    \cup {[raises |-> FALSE, fence |-> "prose", body |-> "object", summary |-> "summary A"]}

\* faulty variant: a summary is returned however short it is
SummarizeResultKeepShort(original_prompt, resp) ==
    IF resp.raises \/ JsonDecodeError(StripFence(resp)) \/ resp.body # "object"
    THEN original_prompt
    ELSE IF resp.summary # "" THEN resp.summary ELSE original_prompt

\* lines 249-278: what _summarize_system_prompt returns on the model's response
SummarizeResult(original_prompt, resp) ==
    IF resp.raises \/ JsonDecodeError(StripFence(resp)) \/ resp.body # "object"
    THEN original_prompt
    ELSE IF resp.summary # "" /\ PersonaLen(resp.summary) > MinSummaryLen
         THEN resp.summary
         ELSE original_prompt

\* what the summarizer's response is, read as the spec reads it: the call
\* failed, the text is no JSON, the JSON is no object, the summary field is
\* missing, it is too short (length <= 10), or the summarization succeeded
SummaryKind(resp) ==
    IF resp.raises THEN "call_failed"
    ELSE IF resp.fence = "prose" \/ resp.body = "garbage" THEN "invalid_json"
    ELSE IF resp.body # "object" THEN "not_object"
    ELSE IF resp.summary = "" THEN "missing"
    ELSE IF PersonaLen(resp.summary) <= MinSummaryLen THEN "short"
    ELSE "ok"

CacheEntry(original_prompt, summarized_prompt) ==
    [original |-> original_prompt, summarized |-> summarized_prompt]

\* faulty variant: an entry of the key is used whatever text it was made from
CacheHitKeyOnly(cache, cache_key, original_prompt) ==
    cache_key \in DOMAIN cache

\* lines 193-198: the key is cached and the cached original is the text
CacheHit(cache, cache_key, original_prompt) ==
    cache_key \in DOMAIN cache /\ cache[cache_key].original = original_prompt

\* faulty variant: only the empty text is too short to summarize
TooShortEmptyOnly(original_prompt) ==
    original_prompt = ""

TooShort(original_prompt) ==
    original_prompt = "" \/ PersonaLen(original_prompt) < MinPersonaLen

\* the host lookups of lines 315 and 181-187 return: cache check, length
\* check, then _summarize_system_prompt up to its text_chat
PersonaReturn(t, persona, conv, lookup) ==
    /\ turn[t].pc = "persona"
    /\ LET original == GetPersonaSystemPrompt(persona)
           e == [turn[t] EXCEPT !.original = original,
                                !.key = IF conv \in CacheKeys THEN conv ELSE "",
                                !.faults = (IF persona.raises THEN {"persona"} ELSE {})
                                           \cup (IF conv = "raise"
                                                  THEN {"conversation"} ELSE {})]
       IN IF conv \notin CacheKeys
          THEN /\ CallJudge(t, e, original)
               /\ UNCHANGED system_prompt_cache
          ELSE IF CacheHit(system_prompt_cache, conv, original)
          THEN /\ CallJudge(t, e, system_prompt_cache[conv].summarized)
               /\ UNCHANGED system_prompt_cache
          ELSE IF TooShort(original)
          THEN /\ CallJudge(t, e, original)
               /\ UNCHANGED system_prompt_cache
          ELSE IF lookup # "ok"
          THEN \* lines 227-229 and 276-278: no provider, original returned
               /\ CallJudge(t, [e EXCEPT !.summary = IF lookup = "raise"
                                                     THEN "call_failed"
                                                     ELSE "no_provider",
                                         !.faults = IF lookup = "raise"
                                                    THEN @ \cup {"summarize"} ELSE @],
                            original)
               /\ system_prompt_cache' =
                      Put(system_prompt_cache, conv, CacheEntry(original, original))
          ELSE /\ turn' = [turn EXCEPT ![t] =
                             [e EXCEPT !.pc = "summarize",
                                       !.sum_calls = e.sum_calls + 1]]
               /\ UNCHANGED <<ledgerVars, system_prompt_cache>>
    /\ UNCHANGED <<cfg, calc, clock, message_buffer, appended, judging_sessions, msgs>>

\* the summarizer's text_chat returns: lines 254-278, then 207-215
SummarizeReturn(t, resp) ==
    /\ turn[t].pc = "summarize"
    /\ LET e == [turn[t] EXCEPT !.summary = SummaryKind(resp),
                                !.faults = IF resp.raises
                                              THEN @ \cup {"summarize"} ELSE @]
           summarized == SummarizeResult(e.original, resp)
       IN /\ system_prompt_cache' =
                 Put(system_prompt_cache, e.key, CacheEntry(e.original, summarized))
          /\ CallJudge(t, e, summarized)
    /\ UNCHANGED <<cfg, calc, clock, message_buffer, appended, judging_sessions, msgs>>

\* the judge's text_chat returns: lines 430-495, the finally of line 290,
\* then lines 578-604
JudgeReturn(t, resp, roll) ==
    /\ turn[t].pc = "judge"
    \* line 467: random.random() is called only when the threshold is met
    /\ JudgeLocals(resp, turn[t].user_fav, roll).random_roll = roll
    /\ LET e == [turn[t] EXCEPT !.faults = IF resp.raises THEN @ \cup {"judge"} ELSE @,
                                !.completion = IF resp.raises THEN "none"
                                               ELSE CompletionKind(resp.text)]
           escaped == JudgeEscapes(resp)
       IN IF escaped # "none"
          THEN /\ judging_sessions' = judging_sessions \ {e.chat}
               /\ turn' = [turn EXCEPT ![t] =
                             [Finished(e, "failed") EXCEPT
                                       !.caught = Catches("Exception", escaped),
                                       !.raised = ~Catches("Exception", escaped)]]
               /\ UNCHANGED ledgerVars
          ELSE Judged(t, e, Mem, JudgeOutcome(resp, e.user_fav, roll),
                      JudgeLocals(resp, e.user_fav, roll))
    /\ UNCHANGED <<cfg, calc, clock, message_buffer, appended, system_prompt_cache, msgs>>

\* on_llm_resp for the reply the host produced to the event of turn t (a
\* group message: the check of line 693 passes), with completion text `text`
ReplyTexts == {"", "reply"}

OnLlmResp(t, text) ==
    /\ turn[t].pc = "done"
    /\ turn[t].wake
    /\ turn[t].reply = "none"
    /\ LET chat_id == turn[t].chat
           done(what) == turn' = [turn EXCEPT ![t].reply = what, ![t].reply_text = text]
       IN IF ~cfg.enable_heartflow
          THEN done("disabled") /\ UNCHANGED <<message_buffer, appended>>
          ELSE IF chat_id \in judging_sessions
          THEN done("judging") /\ UNCHANGED <<message_buffer, appended>>
          ELSE IF ~Eligible(chat_id)
          THEN done("not_whitelisted") /\ UNCHANGED <<message_buffer, appended>>
          ELSE IF text = ""
          THEN done("empty") /\ UNCHANGED <<message_buffer, appended>>
          ELSE /\ done("recorded")
               /\ message_buffer' =
                     RecordMessage(message_buffer, chat_id, "assistant",
                                   [sender |-> "assistant", text |-> text])
               /\ appended' = Appended(appended, chat_id, "assistant",
                                       [sender |-> "assistant", text |-> text])
    /\ UNCHANGED <<cfg, calc, clock, ledgerVars, judging_sessions, system_prompt_cache,
                   msgs>>

----------------------------------------------------------------------------
(* Administrative commands and the clock *)

\* heartflow: the status report reads the state through _get_chat_state
HeartflowStatus(chat_id) ==
    /\ SetMem(GetChatState(Mem, chat_id))
    /\ UNCHANGED <<cfg, calc, clock, message_buffer, appended, judging_sessions,
                   system_prompt_cache, turn, msgs>>

HeartflowReset(chat_id) ==
    /\ chat_id \in DOMAIN chat_states
    /\ chat_states' = Remove(chat_states, chat_id)
    /\ UNCHANGED <<cfg, calc, clock, global_favorability, global_interaction_count,
                   message_buffer, appended, judging_sessions, system_prompt_cache,
                   turn, msgs>>

\* heartflow_fav with the ledger enabled: the report reads the sender's value
\* with _get_user_favorability and the count with _get_user_interaction_count
\* (with the ledger disabled the command answers that and reads nothing)
HeartflowFavorability(chat_id, user_id) ==
    /\ cfg.enable_favorability
    /\ calc' = [fn |-> "fav", chat |-> chat_id, user |-> user_id,
                out |-> GetUserFavorability(Mem, chat_id, user_id)]
    /\ SetMem(GetChatState(GetUserFavorabilityMem(Mem, chat_id, user_id), chat_id))
    /\ UNCHANGED <<cfg, clock, message_buffer, appended, judging_sessions,
                   system_prompt_cache, turn, msgs>>

\* heartflow_fav_reset with the ledger enabled (with the ledger disabled the
\* command answers that and changes nothing): the local maps of the chat the
\* command came from are cleared, and with the global ledger enabled both
\* global maps as a whole. calc records the command and alternates n, so
\* that two resets in a row are two steps.
HeartflowFavorabilityReset(chat_id) ==
    /\ cfg.enable_favorability
    /\ calc' = [fn |-> "fav_reset", chat |-> chat_id,
                n |-> IF calc.fn = "fav_reset" THEN 1 - calc.n ELSE 0]
    /\ LET m1 == GetChatState(Mem, chat_id)
           m2 == [m1 EXCEPT !.cs[chat_id].user_favorability = EmptyMap,
                            !.cs[chat_id].user_interaction_count = EmptyMap]
       IN SetMem(IF cfg.enable_global_favorability
                 THEN [m2 EXCEPT !.gf = EmptyMap, !.gi = EmptyMap]
                 ELSE m2)
    /\ UNCHANGED <<cfg, clock, message_buffer, appended, judging_sessions,
                   system_prompt_cache, turn, msgs>>

\* the two files of the data directory (lines 156-160): absent, or the
\* document the last save wrote
NoFiles == [chat |-> [exists |-> FALSE], global |-> [exists |-> FALSE]]

\* the files on disk: calc keeps what the last save or load left there
Files == IF calc.fn \in {"save", "load"} THEN calc.files ELSE NoFiles

\* the plugin instance that is running: it alternates at every restart
Instance == IF calc.fn \in {"save", "load"} THEN calc.instance ELSE 0

\* faulty variant: a save that leaves the date of the last decay out
SaveFavorabilityNoDecayDate(m, files) ==
    [chat |->
        [exists |-> TRUE,
         data |-> [c \in {x \in DOMAIN m.cs : m.cs[x].user_favorability # EmptyMap} |->
                      [favorability |-> m.cs[c].user_favorability,
                       interaction_count |-> m.cs[c].user_interaction_count,
                       last_decay |-> 0]]],
     global |-> IF cfg.enable_global_favorability
                THEN [exists |-> TRUE,
                      data |-> [favorability |-> m.gf, interaction_count |-> m.gi]]
                ELSE files.global]

\* _save_favorability: the chat file holds the conversations with at least
\* one affinity record, the global file is written only with the global
\* ledger enabled. json.dump and json.load keep the str keys (user and
\* conversation ids), the finite floats, the ints and the ISO date strings
\* as they are.
SaveFavorability(m, files) ==
    [chat |->
        [exists |-> TRUE,
         data |-> [c \in {x \in DOMAIN m.cs : m.cs[x].user_favorability # EmptyMap} |->
                      [favorability |-> m.cs[c].user_favorability,
                       interaction_count |-> m.cs[c].user_interaction_count,
                       last_decay |-> m.cs[c].last_favorability_decay]]],
     global |-> IF cfg.enable_global_favorability
                THEN [exists |-> TRUE,
                      data |-> [favorability |-> m.gf, interaction_count |-> m.gi]]
                ELSE files.global]

\* _load_favorability into the empty maps of a new instance
LoadFavorability(files) ==
    [cs |-> IF files.chat.exists
            THEN [c \in DOMAIN files.chat.data |->
                     [ChatState EXCEPT
                         !.user_favorability = files.chat.data[c].favorability,
                         !.user_interaction_count = files.chat.data[c].interaction_count,
                         !.last_favorability_decay = files.chat.data[c].last_decay]]
            ELSE EmptyMap,
     gf |-> IF cfg.enable_global_favorability /\ files.global.exists
            THEN files.global.data.favorability ELSE EmptyMap,
     gi |-> IF cfg.enable_global_favorability /\ files.global.exists
            THEN files.global.data.interaction_count ELSE EmptyMap]

\* heartflow_fav_save with the ledger enabled (with the ledger disabled the
\* command answers that and writes nothing)
HeartflowFavorabilitySave ==
    /\ cfg.enable_favorability
    /\ calc' = [fn |-> "save", instance |-> Instance,
                files |-> SaveFavorability(Mem, Files)]
    /\ UNCHANGED <<cfg, clock, ledgerVars, message_buffer, appended, judging_sessions,
                   system_prompt_cache, turn, msgs>>

\* the plugin is stopped and constructed again while no handler is
\* suspended: terminate saves the ledger (saved), or the process ends
\* without it; __init__ starts from empty maps and loads the files
Reload(saved) ==
    /\ \A t \in DOMAIN turn : turn[t].pc \in {"idle", "done"}
    /\ LET files == IF saved /\ cfg.enable_favorability
                    THEN SaveFavorability(Mem, Files) ELSE Files
       IN /\ calc' = [fn |-> "load", instance |-> 1 - Instance, files |-> files]
          /\ SetMem(IF cfg.enable_favorability THEN LoadFavorability(files)
                    ELSE [cs |-> EmptyMap, gf |-> EmptyMap, gi |-> EmptyMap])
    /\ message_buffer' = EmptyMap
    /\ appended' = EmptyMap
    /\ judging_sessions' = {}
    /\ system_prompt_cache' = EmptyMap
    /\ turn' = [t \in DOMAIN turn |-> IdleTurn]
    /\ UNCHANGED <<cfg, clock, msgs>>

Tick ==
    /\ clock < MaxDay
    /\ clock' = clock + 1
    /\ UNCHANGED <<cfg, calc, chat_states, global_favorability, global_interaction_count,
                   message_buffer, appended, judging_sessions, system_prompt_cache,
                   turn, msgs>>

----------------------------------------------------------------------------
(* Specifications *)

NoCalc == [fn |-> "none", arg |-> 0, did_reply |-> FALSE, base |-> 0, out |-> 0]

\* The next-state relation over the inputs I the environment may give: the
\* coroutine slots, chats and senders of the messages, and what the host and
\* the judge model answer.
NextOf(I) ==
    \/ \E t \in I.turns, c \in I.chats, u \in I.users, k \in MessageKinds,
          w \in BOOLEAN, l \in I.provider_lookups : OnGroupMessage(t, c, u, k, w, l)
    \/ \E t \in I.turns, p \in I.persona_lookups, v \in I.conversation_lookups,
          l \in I.summarizer_lookups : PersonaReturn(t, p, v, l)
    \/ \E t \in I.turns, r \in I.summary_responses : SummarizeReturn(t, r)
    \/ \E t \in I.turns, r \in I.judge_responses, roll \in Rolls :
          JudgeReturn(t, r, roll)
    \/ \E t \in I.turns, x \in I.reply_texts : OnLlmResp(t, x)
    \/ \E c \in I.chats : HeartflowStatus(c)
    \/ \E c \in I.chats : HeartflowReset(c)
    \/ Tick

InitWith(configs, turns) ==
    /\ cfg \in configs
    /\ clock = 1
    /\ chat_states = EmptyMap
    /\ global_favorability = EmptyMap
    /\ global_interaction_count = EmptyMap
    /\ message_buffer = EmptyMap
    /\ appended = EmptyMap
    /\ calc = NoCalc
    /\ judging_sessions = {}
    /\ system_prompt_cache = EmptyMap
    /\ turn = [t \in turns |-> IdleTurn]
    /\ msgs = 0

\* Spec: one conversation, one sender, one message at a time; every answer of
\* the judge model and of the provider lookup, under the configurations that
\* decide the judgment. The persona is summarized once and then cached.
Configs ==
    {[DefaultConfig EXCEPT !.judge_provider_name = p] : p \in BOOLEAN}
    \cup {[DefaultConfig EXCEPT !.enable_favorability = TRUE,
                                !.favorability_impact_strength = s,
                                !.initial_favorability = i] :
             s \in {0, 10}, i \in {0, 4000}}

Inputs ==
    [turns |-> {1}, chats |-> {"g1"}, users |-> {"u1"},
     provider_lookups |-> ProviderLookups,
     persona_lookups |-> {[raises |-> FALSE, text |-> "long persona A"]},
     conversation_lookups |-> CacheKeys,
     summarizer_lookups |-> {"ok"},
     summary_responses |-> {r \in SummaryResponses :
                               r.fence = "none" /\ r.summary = "summary A"},
     judge_responses |-> JudgeResponses,
     reply_texts |-> {"reply"}]

Init == InitWith(Configs, Inputs.turns)

Next == NextOf(Inputs)

Spec == Init /\ [][Next]_vars

\* SpecConstruct: __init__ applied to configured weight sets, those that sum
\* to 1, to more, to less and to 0 among them. In this specification cfg is
\* the configuration handed to __init__, and calc holds what __init__ made
\* of its weights.
WeightKeys == {"relevance", "willingness", "social", "timing", "continuity"}

WeightSum(w) == w.relevance + w.willingness + w.social + w.timing + w.continuity

\* a weight set of the program: the numerators num over the one denominator den
\* lines 133-139: fav_weights are taken as configured (twentieths)
ConstructFavWeights(w) == [num |-> w, den |-> 20]

\* lines 142-155: weights are divided by their sum when it differs from 1 by
\* more than 1e-6; the division raises ZeroDivisionError for the sum 0
ConstructWeights(w) ==
    IF WeightSum(w) = 20
    THEN [raised |-> FALSE, num |-> w, den |-> 20]
    ELSE IF WeightSum(w) = 0
         THEN [raised |-> TRUE, num |-> w, den |-> 20]
         ELSE [raised |-> FALSE, num |-> w, den |-> WeightSum(w)]

ConfiguredWeights ==
    {[relevance |-> a, willingness |-> b, social |-> c, timing |-> d, continuity |-> e] :
        a \in {0, 5, 10}, b \in {0, 4}, c \in {0, 4}, d \in {0, 3}, e \in {0, 4}}

ConfiguredFavWeights ==
    {DefaultFavWeights, [DefaultFavWeights EXCEPT !.relevance = 16],
     [DefaultFavWeights EXCEPT !.social = 0], Uniform(0), Uniform(4)}

ConstructConfigs ==
    {[DefaultConfig EXCEPT !.weights = w, !.fav_weights = f] :
        w \in ConfiguredWeights, f \in ConfiguredFavWeights}

Construct ==
    /\ calc.fn = "none"
    /\ calc' = [fn |-> "init",
                raised |-> ConstructWeights(cfg.weights).raised,
                weights |-> [num |-> ConstructWeights(cfg.weights).num,
                             den |-> ConstructWeights(cfg.weights).den],
                fav_weights |-> ConstructFavWeights(cfg.fav_weights)]
    /\ UNCHANGED <<cfg, clock, ledgerVars, message_buffer, appended, judging_sessions,
                   system_prompt_cache, turn, msgs>>

InitConstruct == InitWith(ConstructConfigs, {1})

NextConstruct == Construct

SpecConstruct == InitConstruct /\ [][NextConstruct]_vars

\* SpecCalc: the pure helpers of the affinity ledger applied to arguments
\* over their whole range: _calculate_favorability_change on judge results
\* whose quality covers 0..1 with every segment boundary and its neighbours,
\* and the decay step of _apply_favorability_decay on values over 0..100.
DeltaVectors ==
    {[relevance |-> a, social |-> b, continuity |-> c, willingness |-> w, timing |-> 0] :
        a \in {0, 5, 10}, b \in {0, 5, 10}, c \in {0, 5, 10}, w \in {0, 1, 9, 10}}
    \cup {Uniform(10)}

\* the whole points 0.0, 1.0, ..., 100.0
DecayArgs == {v * (FavMax \div 100) : v \in 0 .. 100}

DecayRates == {0, 400, 13000}

CalcConfigs ==
    {[DefaultConfig EXCEPT !.enable_favorability = TRUE, !.favorability_decay_daily = d] :
        d \in DecayRates}

CalcDelta(r, did_reply) ==
    /\ calc' = [fn |-> "delta", arg |-> QualityScore(r), did_reply |-> did_reply,
                base |-> SegmentDelta(QualityScore(r)),
                out |-> CalculateFavorabilityChange(r, did_reply)]
    /\ UNCHANGED <<cfg, clock, ledgerVars, message_buffer, appended, judging_sessions,
                   system_prompt_cache, turn, msgs>>

CalcDecay(current) ==
    /\ calc' = [fn |-> "decay", arg |-> current, did_reply |-> FALSE,
                base |-> current, out |-> DecayValue(current)]
    /\ UNCHANGED <<cfg, clock, ledgerVars, message_buffer, appended, judging_sessions,
                   system_prompt_cache, turn, msgs>>

InitCalc == InitWith(CalcConfigs, {1})

NextCalc ==
    \/ \E r \in DeltaVectors, d \in BOOLEAN : CalcDelta(r, d)
    \/ \E v \in DecayArgs : CalcDecay(v)

SpecCalc == InitCalc /\ [][NextCalc]_vars

\* SpecLedger: the affinity ledger enabled, local alone and with the global
\* ledger (daily decay 1.0 and 32.5), from the lowest and the highest initial
\* value; accepted, rejected and mention turns.
LedgerConfigs ==
    {[DefaultConfig EXCEPT !.enable_favorability = TRUE,
                           !.enable_global_favorability = g,
                           !.initial_favorability = i,
                           !.favorability_decay_daily = IF g THEN 13000 ELSE 400] :
        g \in BOOLEAN, i \in {FavMin, FavMax}}

LedgerInputs ==
    [turns |-> {1}, chats |-> {"g1"}, users |-> {"u1"},
     provider_lookups |-> {"ok"},
     persona_lookups |-> {[raises |-> FALSE, text |-> "long persona A"]},
     conversation_lookups |-> CacheKeys,
     summarizer_lookups |-> {"ok"},
     summary_responses |-> {r \in SummaryResponses :
                               r.fence = "none" /\ r.summary = "summary A"},
     judge_responses |->
         {r \in JudgeResponses :
             /\ ~r.raises
             /\ r.text \in {Completion("none", "object", Uniform(10), "text"),
                            Completion("none", "object", Uniform(0), "text")}},
     reply_texts |-> {"reply"}]

InitLedger == InitWith(LedgerConfigs, LedgerInputs.turns)

NextLedger == NextOf(LedgerInputs)

SpecLedger == InitLedger /\ [][NextLedger]_vars

\* SpecBuffer: the buffer cap and the context length from 0 up (pairs of
\* max_buffer_size and context_messages_count), accepted and rejected turns,
\* mentions, and the host's replies (empty and not).
BufferSizes == {<<0, 2>>, <<1, 2>>, <<3, 0>>, <<3, 1>>, <<3, 2>>}

BufferConfigs ==
    {[DefaultConfig EXCEPT !.max_buffer_size = z[1], !.context_messages_count = z[2]] :
        z \in BufferSizes}

BufferInputs ==
    [turns |-> {1}, chats |-> {"g1"}, users |-> {"u1"},
     provider_lookups |-> {"ok"},
     persona_lookups |-> {[raises |-> FALSE, text |-> "long persona A"]},
     conversation_lookups |-> CacheKeys,
     summarizer_lookups |-> {"ok"},
     summary_responses |-> {r \in SummaryResponses :
                               r.fence = "none" /\ r.summary = "summary A"},
     judge_responses |->
         {r \in JudgeResponses :
             /\ ~r.raises
             /\ r.text \in {Completion("none", "object", Uniform(10), "text"),
                            Completion("none", "object", Uniform(0), "text")}},
     reply_texts |-> ReplyTexts]

InitBuffer == InitWith(BufferConfigs, BufferInputs.turns)

NextBuffer == NextOf(BufferInputs)

SpecBuffer == InitBuffer /\ [][NextBuffer]_vars

\* SpecOverlap: two turns of one conversation in flight at once, an accepting
\* judge, and the host's replies.
OverlapSizes == {<<3, 1>>, <<1, 2>>}

OverlapConfigs ==
    {[DefaultConfig EXCEPT !.max_buffer_size = z[1], !.context_messages_count = z[2]] :
        z \in OverlapSizes}

OverlapInputs ==
    [turns |-> {1, 2}, chats |-> {"g1"}, users |-> {"u1"},
     provider_lookups |-> {"ok"},
     persona_lookups |-> {[raises |-> FALSE, text |-> "long persona A"]},
     conversation_lookups |-> CacheKeys,
     summarizer_lookups |-> {"ok"},
     summary_responses |-> {r \in SummaryResponses :
                               r.fence = "none" /\ r.summary = "summary A"},
     judge_responses |->
         {r \in JudgeResponses :
             ~r.raises /\ r.text = Completion("none", "object", Uniform(10), "text")},
     reply_texts |-> {"reply"}]

InitOverlap == InitWith(OverlapConfigs, OverlapInputs.turns)

NextOverlap == NextOf(OverlapInputs)

SpecOverlap == InitOverlap /\ [][NextOverlap]_vars

\* SpecLookup: the affinity ledger read by the judge and by heartflow_fav in
\* two conversations, with the global ledger on and off and the whitelist
\* off and listing g1 only; mentions and rejected turns move the values.
\* With the whitelist off the messages and commands come from g1 alone.
LookupChats == IF cfg.whitelist_enabled THEN {"g1", "g2"} ELSE {"g1"}

LookupConfigs ==
    {[DefaultConfig EXCEPT !.enable_favorability = TRUE,
                           !.enable_global_favorability = g,
                           !.whitelist_enabled = w[1],
                           !.chat_whitelist = w[2],
                           !.favorability_decay_daily = 13000] :
        g \in BOOLEAN, w \in {<<FALSE, {}>>, <<TRUE, {"g1"}>>}}
    \cup {[DefaultConfig EXCEPT !.enable_global_favorability = TRUE]}

LookupInputs ==
    [turns |-> {1}, chats |-> LookupChats, users |-> {"u1"},
     provider_lookups |-> {"ok"},
     persona_lookups |-> {[raises |-> FALSE, text |-> "long persona A"]},
     conversation_lookups |-> CacheKeys,
     summarizer_lookups |-> {"ok"},
     summary_responses |-> {r \in SummaryResponses :
                               r.fence = "none" /\ r.summary = "summary A"},
     judge_responses |->
         {r \in JudgeResponses :
             ~r.raises /\ r.text = Completion("none", "object", Uniform(0), "text")},
     reply_texts |-> {"reply"}]

InitLookup == InitWith(LookupConfigs, LookupInputs.turns)

\* the steps of NextOf(LookupInputs), and heartflow_fav
NextLookup ==
    \/ \E t \in LookupInputs.turns, c \in LookupChats, u \in LookupInputs.users,
          k \in MessageKinds, w \in BOOLEAN, l \in LookupInputs.provider_lookups :
          OnGroupMessage(t, c, u, k, w, l)
    \/ \E t \in LookupInputs.turns, p \in LookupInputs.persona_lookups,
          v \in LookupInputs.conversation_lookups,
          l \in LookupInputs.summarizer_lookups : PersonaReturn(t, p, v, l)
    \/ \E t \in LookupInputs.turns, r \in LookupInputs.summary_responses :
          SummarizeReturn(t, r)
    \/ \E t \in LookupInputs.turns, r \in LookupInputs.judge_responses, roll \in Rolls :
          JudgeReturn(t, r, roll)
    \/ \E t \in LookupInputs.turns, x \in LookupInputs.reply_texts : OnLlmResp(t, x)
    \/ \E c \in LookupChats : HeartflowStatus(c)
    \/ \E c \in LookupChats : HeartflowReset(c)
    \/ \E c \in LookupChats, u \in LookupInputs.users : HeartflowFavorability(c, u)
    \/ Tick

SpecLookup == InitLookup /\ [][NextLookup]_vars

\* SpecPersist: the ledger of one conversation and two senders saved by
\* heartflow_fav_save and by terminate and loaded by a new instance, with
\* the global ledger on and off; mentions and rejected turns move the values.
PersistConfigs ==
    {[DefaultConfig EXCEPT !.enable_favorability = TRUE,
                           !.enable_global_favorability = g,
                           !.favorability_decay_daily = 13000] : g \in BOOLEAN}

PersistInputs == [LookupInputs EXCEPT !.chats = {"g1"}, !.users = {"u1", "u2"}]

InitPersist == InitWith(PersistConfigs, PersistInputs.turns)

NextPersist ==
    \/ \E t \in PersistInputs.turns, c \in PersistInputs.chats, u \in PersistInputs.users,
          k \in MessageKinds, w \in BOOLEAN, l \in PersistInputs.provider_lookups :
          OnGroupMessage(t, c, u, k, w, l)
    \/ \E t \in PersistInputs.turns, p \in PersistInputs.persona_lookups,
          v \in PersistInputs.conversation_lookups,
          l \in PersistInputs.summarizer_lookups : PersonaReturn(t, p, v, l)
    \/ \E t \in PersistInputs.turns, r \in PersistInputs.summary_responses :
          SummarizeReturn(t, r)
    \/ \E t \in PersistInputs.turns, r \in PersistInputs.judge_responses, roll \in Rolls :
          JudgeReturn(t, r, roll)
    \/ \E c \in PersistInputs.chats : HeartflowReset(c)
    \/ HeartflowFavorabilitySave
    \/ \E s \in BOOLEAN : Reload(s)
    \/ Tick

SpecPersist == InitPersist /\ [][NextPersist]_vars

\* SpecShared: one sender in two conversations that share the global
\* ledger (no whitelist), with a decay of 5.0 a day; mentions and
\* rejected turns move the values, and the administrator reads the status
\* and resets the state and the affinity of either conversation.
SharedConfigs ==
    {[DefaultConfig EXCEPT !.enable_favorability = TRUE,
                           !.enable_global_favorability = TRUE,
                           !.favorability_decay_daily = 2000]}

SharedInputs == [LookupInputs EXCEPT !.chats = {"g1", "g2"}]

InitShared == InitWith(SharedConfigs, SharedInputs.turns)

NextShared ==
    \/ \E t \in SharedInputs.turns, c \in SharedInputs.chats, u \in SharedInputs.users,
          k \in MessageKinds, w \in BOOLEAN, l \in SharedInputs.provider_lookups :
          OnGroupMessage(t, c, u, k, w, l)
    \/ \E t \in SharedInputs.turns, p \in SharedInputs.persona_lookups,
          v \in SharedInputs.conversation_lookups,
          l \in SharedInputs.summarizer_lookups : PersonaReturn(t, p, v, l)
    \/ \E t \in SharedInputs.turns, r \in SharedInputs.summary_responses :
          SummarizeReturn(t, r)
    \/ \E t \in SharedInputs.turns, r \in SharedInputs.judge_responses, roll \in Rolls :
          JudgeReturn(t, r, roll)
    \/ \E c \in SharedInputs.chats : HeartflowStatus(c)
    \/ \E c \in SharedInputs.chats : HeartflowReset(c)
    \/ \E c \in SharedInputs.chats : HeartflowFavorabilityReset(c)
    \/ Tick

SpecShared == InitShared /\ [][NextShared]_vars

\* SpecTurn: the turns of one conversation with every outcome: the provider
\* missing or not configured, the judge's call raising, an answer that is
\* no JSON, accepted and rejected answers (one with a "reasoning" that is no
\* string), and mentions; without and with the affinity ledger.
TurnConfigs ==
    {[DefaultConfig EXCEPT !.judge_provider_name = p, !.enable_favorability = f] :
        p \in BOOLEAN, f \in BOOLEAN}

TurnInputs ==
    [turns |-> {1}, chats |-> {"g1"}, users |-> {"u1"},
     provider_lookups |-> ProviderLookups,
     persona_lookups |-> {[raises |-> FALSE, text |-> "long persona A"]},
     conversation_lookups |-> CacheKeys,
     summarizer_lookups |-> {"ok"},
     summary_responses |-> {r \in SummaryResponses :
                               r.fence = "none" /\ r.summary = "summary A"},
     judge_responses |->
         {r \in JudgeResponses :
             \/ r.raises
             \/ r.text \in {Completion("none", "object", Uniform(10), "text"),
                            Completion("none", "object", Uniform(0), "text"),
                            Completion("none", "object", Uniform(0), NonStr),
                            Completion("none", "garbage", Uniform(0), "")}},
     reply_texts |-> {"reply"}]

InitTurn == InitWith(TurnConfigs, TurnInputs.turns)

NextTurn == NextOf(TurnInputs)

SpecTurn == InitTurn /\ [][NextTurn]_vars

\* SpecPersona: every answer of the persona lookup, the conversation lookup,
\* the summarizer's provider lookup and the summarizer, with a rejecting
\* judge.
PersonaInputs ==
    [turns |-> {1}, chats |-> {"g1"}, users |-> {"u1"},
     provider_lookups |-> {"ok"},
     persona_lookups |-> PersonaLookups,
     conversation_lookups |-> ConversationLookups,
     summarizer_lookups |-> ProviderLookups,
     summary_responses |-> SummaryResponses,
     judge_responses |->
         {r \in JudgeResponses :
             ~r.raises /\ r.text = Completion("none", "object", Uniform(0), "text")},
     reply_texts |-> {"reply"}]

InitPersona == InitWith({DefaultConfig}, PersonaInputs.turns)

NextPersona == NextOf(PersonaInputs)

SpecPersona == InitPersona /\ [][NextPersona]_vars

\* SpecFaults: every way the host lookups, the summarizer and the judge call
\* can fail, with three answers of the judge model.
FaultConfigs ==
    {[DefaultConfig EXCEPT !.enable_favorability = f] : f \in BOOLEAN}

FaultInputs ==
    [turns |-> {1}, chats |-> {"g1"}, users |-> {"u1"},
     provider_lookups |-> {"ok"},
     persona_lookups |-> PersonaLookups,
     conversation_lookups |-> ConversationLookups,
     summarizer_lookups |-> ProviderLookups,
     summary_responses |-> SummaryResponses,
     judge_responses |->
         {r \in JudgeResponses :
             \/ r.raises
             \/ r.text \in {Completion("none", "object", Uniform(10), "text"),
                            Completion("none", "object", Uniform(0), "text")}},
     reply_texts |-> {"reply"}]

InitFaults == InitWith(FaultConfigs, FaultInputs.turns)

NextFaults == NextOf(FaultInputs)

SpecFaults == InitFaults /\ [][NextFaults]_vars

\* SpecEnergy: the energy rates over [0, 1], with an accepting, a rejecting
\* and a failing answer of the judge model.
EnergyRates == {0, 10, 100}

EnergyConfigs ==
    {[DefaultConfig EXCEPT !.energy_decay_rate = d, !.energy_recovery_rate = r] :
        d \in EnergyRates, r \in EnergyRates \cup {2}}

EnergyInputs ==
    [turns |-> {1}, chats |-> {"g1"}, users |-> {"u1"},
     provider_lookups |-> {"ok"},
     persona_lookups |-> {[raises |-> FALSE, text |-> "long persona A"]},
     conversation_lookups |-> CacheKeys,
     summarizer_lookups |-> {"ok"},
     summary_responses |-> {r \in SummaryResponses :
                               r.fence = "none" /\ r.summary = "summary A"},
     judge_responses |->
         {r \in JudgeResponses :
             \/ r.raises
             \/ r.text \in {Completion("none", "object", Uniform(10), "text"),
                            Completion("none", "object", Uniform(0), "text")}},
     reply_texts |-> {"reply"}]

InitEnergy == InitWith(EnergyConfigs, EnergyInputs.turns)

NextEnergy == NextOf(EnergyInputs)

SpecEnergy == InitEnergy /\ [][NextEnergy]_vars

----------------------------------------------------------------------------
(* Properties *)

\* a turn that went through judge_with_tiny_model and has returned
JudgedTurn(t) == turn[t].pc = "done" /\ turn[t].outcome \in {"accept", "reject", "failed"}

\* the judge model answered, and its text is no JSON object
Unparsable(t) == turn[t].completion \in {"invalid_json", "not_object"}

\* C1: fail-closed judgment. Whenever the judge model's completion text is
\* invalid JSON or JSON that is not an object, _do_judge returns a result with
\* should_reply = false and on_group_message does not mark the turn
\* (is_at_or_wake_command stays false).
C1_FailClosedOnUnparsable ==
    \A t \in DOMAIN turn :
        (JudgedTurn(t) /\ Unparsable(t))
            => (~turn[t].result.should_reply /\ ~turn[t].wake
                /\ turn[t].outcome = "failed")

C1_Witness ==
    \E t \in DOMAIN turn :
        JudgedTurn(t) /\ turn[t].completion = "not_object" /\ ~turn[t].wake

\* C2: judgment retries. After a completion that fails to parse, evaluate
\* sends the request again (for any configured maxRetries >= 1), so a judgment
\* whose first completion was unparsable has made at least two calls of the
\* judge model.
C2_ResendsAfterParseFailure ==
    \A t \in DOMAIN turn :
        (JudgedTurn(t) /\ Unparsable(t)) => turn[t].calls >= 2

\* C3: a configuration error is fail-closed without any model call. When no
\* provider name is configured, or the provider lookup returns nothing or
\* raises, the result has should_reply = false and a non-empty reasoning, and
\* text_chat was not called in that turn.
C3_ConfigErrorFailClosed ==
    \A t \in DOMAIN turn :
        (JudgedTurn(t) /\ (~cfg.judge_provider_name \/ turn[t].lookup \in {"none", "raise"}))
            => /\ ~turn[t].result.should_reply
               /\ ~turn[t].wake
               /\ turn[t].result.reasoning # ""
               /\ turn[t].calls = 0
               /\ turn[t].sum_calls = 0

C3_Witness ==
    \E t \in DOMAIN turn :
        JudgedTurn(t) /\ cfg.judge_provider_name /\ turn[t].lookup = "none"
        /\ turn[t].result.reasoning = "provider_not_found"

\* C4 as stated: for every way the judge call, the persona lookup or the
\* summarization can raise, on_group_message raises nothing and the turn ends
\* as no-reply.
C4_FaultEndsNoReply ==
    \A t \in DOMAIN turn :
        (JudgedTurn(t) /\ turn[t].faults # {}) => (~turn[t].raised /\ ~turn[t].wake)

\* C4 amended: for every such fault on_group_message raises nothing; a judge
\* call that raises ends the turn as no-reply (a persona lookup or a
\* summarization that raises leaves the judgment to go on with the empty or
\* the original persona text).
C4_FaultNeverReachesHost ==
    \A t \in DOMAIN turn :
        (JudgedTurn(t) /\ turn[t].faults # {})
            => /\ ~turn[t].raised
               /\ "judge" \in turn[t].faults
                    => (~turn[t].wake /\ ~turn[t].result.should_reply)

C4_Witness ==
    \E t \in DOMAIN turn :
        JudgedTurn(t) /\ turn[t].faults = {"persona", "judge"} /\ ~turn[t].raised

\* C5: threshold gate. For every parsed judgment should_reply = true implies
\* overall_score >= reply_threshold, whatever the affinity and the draw.
C5_ThresholdGate ==
    \A t \in DOMAIN turn :
        (JudgedTurn(t) /\ turn[t].result.should_reply)
            => turn[t].result.overall_score >= cfg.reply_threshold

C5_Witness ==
    \E t \in DOMAIN turn :
        JudgedTurn(t) /\ turn[t].result.should_reply /\ cfg.enable_favorability
        /\ turn[t].result.overall_score = cfg.reply_threshold

\* C6: with affinity disabled, should_reply equals meets_threshold for every
\* overall score and every draw in [0, 1).
C6_DisabledAffinityIsThresholdOnly ==
    \A t \in DOMAIN turn :
        (JudgedTurn(t) /\ turn[t].locals.parsed /\ ~cfg.enable_favorability)
            => (turn[t].result.should_reply
                    <=> turn[t].result.overall_score >= cfg.reply_threshold)

C6_Witness ==
    \E t \in DOMAIN turn :
        /\ JudgedTurn(t) /\ turn[t].locals.parsed /\ ~cfg.enable_favorability
        /\ turn[t].locals.random_roll = DrawSteps - 1
        /\ turn[t].result.should_reply

\* C7: scenario B. With affinity enabled, affinity 0, impact strength 1.0 and
\* the threshold met, the reply probability is 0.0 and should_reply is false
\* for every draw in [0, 1).
C7_ZeroAffinityNeverReplies ==
    \A t \in DOMAIN turn :
        (/\ JudgedTurn(t) /\ turn[t].locals.parsed /\ turn[t].locals.meets_threshold
         /\ cfg.enable_favorability /\ cfg.favorability_impact_strength = 10
         /\ turn[t].user_fav = 0)
            => (turn[t].locals.reply_probability = 0 /\ ~turn[t].result.should_reply)

\* C8: with impact strength 0 the reply probability is 1.0 for every affinity
\* value, so the affinity changes neither the probability nor, for any draw,
\* should_reply.
C8_ZeroStrengthIgnoresAffinity ==
    \A t \in DOMAIN turn :
        (/\ JudgedTurn(t) /\ turn[t].locals.parsed
         /\ cfg.enable_favorability /\ cfg.favorability_impact_strength = 0)
            => /\ turn[t].locals.reply_probability = ProbDen
               /\ CalculateReplyProbability(turn[t].user_fav) = ProbDen
               /\ turn[t].result.should_reply <=> turn[t].locals.meets_threshold

C8_Witness ==
    \E t \in DOMAIN turn :
        /\ JudgedTurn(t) /\ turn[t].locals.parsed
        /\ cfg.enable_favorability /\ cfg.favorability_impact_strength = 0
        /\ turn[t].user_fav = 0 /\ turn[t].locals.random_roll = DrawSteps - 1
        /\ turn[t].result.should_reply

\* C9: energy invariant. With decay and recovery rates in [0, 1], after any
\* sequence of state accesses (with or without a daily tick), active replies
\* and passive updates, every conversation's energy is in [0.1, 1.0].
C9_EnergyInRange ==
    \A c \in DOMAIN chat_states :
        chat_states[c].energy >= EnergyFloor /\ chat_states[c].energy <= EnergyCeiling

C9_Witness ==
    \E c \in DOMAIN chat_states :
        /\ chat_states[c].energy = EnergyFloor
        /\ chat_states[c].total_replies > 0
        /\ cfg.energy_decay_rate = 100

\* the step in which on_group_message applies _update_active_state
ActiveStep(t) ==
    turn[t].pc = "judge" /\ turn'[t].pc = "done" /\ turn'[t].outcome = "accept"

\* C10 as stated: for a nonzero decay rate and an energy above the floor,
\* the energy after _update_active_state is strictly lower than before the
\* call, also on the first access of a new calendar day.
C10_ActiveAlwaysDecreases ==
    [][\A t \in DOMAIN turn :
          (/\ ActiveStep(t)
           /\ cfg.energy_decay_rate > 0
           /\ turn[t].chat \in DOMAIN chat_states
           /\ chat_states[turn[t].chat].energy > EnergyFloor)
              => chat_states'[turn[t].chat].energy < chat_states[turn[t].chat].energy]_vars

\* C10 amended: the same, when the conversation's daily tick of the day has
\* run (last_reset_date is today): then _update_active_state strictly
\* decreases an energy above the floor.
C10_ActiveDecreasesAfterTick ==
    [][\A t \in DOMAIN turn :
          (/\ ActiveStep(t)
           /\ cfg.energy_decay_rate > 0
           /\ turn[t].chat \in DOMAIN chat_states
           /\ chat_states[turn[t].chat].last_reset_date = Today
           /\ chat_states[turn[t].chat].energy > EnergyFloor)
              => chat_states'[turn[t].chat].energy < chat_states[turn[t].chat].energy]_vars

C10_Witness ==
    \E t \in DOMAIN turn :
        /\ turn[t].pc = "done" /\ turn[t].outcome = "accept"
        /\ cfg.energy_decay_rate = 10
        /\ turn[t].chat \in DOMAIN chat_states
        /\ chat_states[turn[t].chat].last_reset_date = Today
        /\ chat_states[turn[t].chat].total_replies = 2
        /\ chat_states[turn[t].chat].energy = 80

\* C12: decay never overshoots. For any daily rate >= 0 one decay step moves
\* a value above 50 to a value in [50, old], a value below 50 to a value in
\* [old, 50], and leaves 50 unchanged.
C12_DecayNeverOvershoots ==
    calc.fn = "decay"
        => /\ calc.arg > FavNeutral => (calc.out >= FavNeutral /\ calc.out <= calc.arg)
           /\ calc.arg < FavNeutral => (calc.out <= FavNeutral /\ calc.out >= calc.arg)
           /\ calc.arg = FavNeutral => calc.out = calc.arg

C12_Witness ==
    /\ calc.fn = "decay" /\ cfg.favorability_decay_daily = 13000
    /\ calc.arg = 0 /\ calc.out = FavNeutral

\* C14 as stated: for a fixed did_reply, q1 <= q2 implies
\* computeDelta(q1) <= computeDelta(q2).
C14_DeltaMonotone ==
    [][(/\ calc.fn = "delta" /\ calc'.fn = "delta"
        /\ calc.did_reply = calc'.did_reply
        /\ calc.arg <= calc'.arg)
           => calc.out <= calc'.out]_vars

\* C14 amended: computeDelta is non-decreasing in quality when the turn was
\* replied to; without a reply it is non-decreasing over the qualities up to
\* 0.5 and over the qualities above 0.5 (at 0.5 the -0.2 correction sets in).
C14_DeltaMonotoneBySide ==
    [][(/\ calc.fn = "delta" /\ calc'.fn = "delta"
        /\ calc.did_reply = calc'.did_reply
        /\ calc.arg <= calc'.arg
        /\ (calc.did_reply \/ calc'.arg <= 100 \/ calc.arg > 100))
           => calc.out <= calc'.out]_vars

C14_Witness ==
    calc.fn = "delta" /\ ~calc.did_reply /\ calc.arg = 101 /\ calc.out = 0 - 102

\* the value of the segment map at a segment boundary (1/400 points)
BoundaryValue(q) ==
    CASE q = 40 -> 0 - 1000
      [] q = 80 -> 0 - 400
      [] q = 120 -> 320
      [] q = 160 -> 800

\* C15: the five-segment map is continuous at the boundaries: at quality 0.2,
\* 0.4, 0.6 and 0.8 the segment below and the segment above both give -2.5,
\* -1.0, +0.8 and +2.0; the map gives -5.0 at quality 0 and +3.0 at quality 1.
C15_SegmentsContinuous ==
    calc.fn = "delta"
        => /\ calc.arg \in {40, 80, 120, 160}
                => /\ calc.base = BoundaryValue(calc.arg)
                   /\ SegmentValue(SegmentOf(calc.arg), calc.arg) = BoundaryValue(calc.arg)
                   /\ SegmentValue(SegmentOf(calc.arg) + 1, calc.arg)
                          = BoundaryValue(calc.arg)
           /\ calc.arg = 0 => calc.base = 0 - 2000
           /\ calc.arg = 200 => calc.base = 1200

C15_Witness ==
    calc.fn = "delta" /\ calc.arg = 120 /\ calc.base = 320

\* C11: affinity invariant. After any sequence of _update_favorability and
\* daily decays from an initial value in [0, 100], every local and every
\* global affinity value is in [0, 100].
C11_AffinityInRange ==
    /\ \A c \in DOMAIN chat_states : \A u \in DOMAIN chat_states[c].user_favorability :
           /\ chat_states[c].user_favorability[u] >= FavMin
           /\ chat_states[c].user_favorability[u] <= FavMax
    /\ \A u \in DOMAIN global_favorability :
           global_favorability[u] >= FavMin /\ global_favorability[u] <= FavMax

C11_Witness ==
    /\ cfg.initial_favorability = FavMin /\ cfg.enable_global_favorability
    /\ \E c \in DOMAIN chat_states : \E u \in DOMAIN chat_states[c].user_favorability :
           /\ chat_states[c].user_favorability[u] = FavMin
           /\ u \in DOMAIN global_favorability /\ global_favorability[u] = FavMin
           /\ chat_states[c].user_interaction_count[u] = 1
           /\ chat_states[c].total_messages = 1

\* C13: the local decay runs at most once per calendar day per conversation.
\* A step that accesses a conversation whose state was already accessed on
\* this date (last_reset_date is today) and applies no affinity delta (the
\* interaction counts stay) leaves the conversation's local values unchanged.
C13_DecayOncePerDay ==
    [][\A c \in DOMAIN chat_states :
          (/\ c \in DOMAIN chat_states'
           /\ clock' = clock
           /\ chat_states[c].last_reset_date = Today
           /\ chat_states'[c].user_interaction_count = chat_states[c].user_interaction_count)
              => chat_states'[c].user_favorability = chat_states[c].user_favorability]_vars

C13_Witness ==
    /\ cfg.favorability_decay_daily = 400 /\ cfg.initial_favorability = FavMin
    /\ clock = 2
    /\ \E t \in DOMAIN turn :
           /\ turn[t].pc = "judge" /\ turn[t].chat \in DOMAIN chat_states
           /\ chat_states[turn[t].chat].last_favorability_decay = 2
           /\ turn[t].user \in DOMAIN chat_states[turn[t].chat].user_favorability
           /\ chat_states[turn[t].chat].user_favorability[turn[t].user] = 800

\* the newest k entries of a history, in the order of their appends
Newest(log, k) == [i \in 1 .. k |-> log[Len(log) - k + i]]

\* C16: buffer cap invariant. After any number of appends, for every
\* configured cap, a conversation's buffer holds at most max_buffer_size
\* entries.
C16_BufferWithinCap ==
    \A c \in DOMAIN message_buffer : Len(message_buffer[c]) <= cfg.max_buffer_size

\* C17: FIFO eviction. After the appends M1..Mk to a conversation with cap c
\* the buffer holds exactly the last min(k, c) appended entries in their
\* append order.
C17_BufferIsNewestEntries ==
    \A c \in DOMAIN appended :
        /\ c \in DOMAIN message_buffer
        /\ message_buffer[c]
              = Newest(appended[c], Min(Len(appended[c]), cfg.max_buffer_size))

\* the step in which _do_judge reads the context and calls the judge model
JudgeCalled(t) == turn[t].pc # "judge" /\ turn'[t].pc = "judge"

\* C18: recentContext returns at most n = context_messages_count entries:
\* the n most recent buffered entries in buffer order (all of them when fewer
\* than n exist), with roles user and assistant only.
C18_ContextIsNewestN ==
    [][\A t \in DOMAIN turn :
          JudgeCalled(t)
              => LET buf == GetOr(message_buffer, turn'[t].chat, <<>>)
                     k == Min(Len(buf), cfg.context_messages_count)
                     ctx == turn'[t].context
                 IN /\ Len(ctx) <= cfg.context_messages_count
                    /\ Len(ctx) = k
                    /\ \A i \in 1 .. k :
                          /\ ctx[i].role = Newest(buf, k)[i].role
                          /\ ctx[i].content = Newest(buf, k)[i].content
                          /\ ctx[i].role \in {"user", "assistant"}]_vars

\* the context holds the user message of turn t
InContext(ctx, msg) ==
    \E j \in 1 .. Len(ctx) :
        ctx[j].role = "user" /\ ctx[j].content.text = msg /\ ctx[j].label = "peer_message"

C20_ReplyAlwaysRecorded ==
    \A t \in DOMAIN turn :
        (/\ turn[t].reply # "none" /\ turn[t].reply_text # ""
         /\ cfg.enable_heartflow /\ Eligible(turn[t].chat))
            => turn[t].reply = "recorded"

\* a turn between the start of its judge call (judge_with_tiny_model entered)
\* and the return of on_group_message, which applies the state update
InJudgment(t) == turn[t].pc \in {"persona", "summarize", "judge"}

\* C21: turns of the same conversation are judged and applied serially: in
\* no reachable state are two turns of one conversation between the start
\* of their judge call and the application of their update at the same time.
C21_SameConversationSerial ==
    \A t1, t2 \in DOMAIN turn :
        (t1 # t2 /\ InJudgment(t1) /\ InJudgment(t2)) => turn[t1].chat # turn[t2].chat

\* the step in which on_group_message returns from a judged turn: the
\* judge's text_chat has returned, or _do_judge returned a configuration
\* error before any await
JudgedStep(t) ==
    \/ turn[t].pc = "judge" /\ turn'[t].pc = "done"
    \/ /\ msgs' = msgs + 1
       /\ turn'[t].pc = "done" /\ turn'[t].outcome = "failed"
       /\ \A s \in DOMAIN turn \ {t} : turn'[s] = turn[s]

\* C22: every judged turn applies exactly one of the active and the passive
\* update: total_messages grows by exactly 1; total_replies grows by 1 and
\* last_reply_time is set if and only if the outcome is accept; on reject
\* and failed total_replies and last_reply_time are unchanged, and the
\* energy moves as the applied update says.
C22_OutcomeToState ==
    [][\A t \in DOMAIN turn :
          JudgedStep(t)
              => LET c == turn'[t].chat
                     before == GetOr(chat_states, c, ChatState)
                     ticked == GetChatState(Mem, c).cs[c]
                 IN /\ c \in DOMAIN chat_states'
                    /\ turn'[t].outcome \in {"accept", "reject", "failed"}
                    /\ chat_states'[c].total_messages = before.total_messages + 1
                    /\ IF turn'[t].outcome = "accept"
                       THEN /\ chat_states'[c].total_replies = before.total_replies + 1
                            /\ chat_states'[c].last_reply_time = clock
                            /\ chat_states'[c].energy = ActiveEnergy(ticked.energy)
                       ELSE /\ chat_states'[c].total_replies = before.total_replies
                            /\ chat_states'[c].last_reply_time = before.last_reply_time
                            /\ chat_states'[c].energy = PassiveEnergy(ticked.energy)]_vars

\* an accepted turn on day 1, then a rejected one on day 2
C22_Witness ==
    \E t \in DOMAIN turn :
        /\ turn[t].pc = "done" /\ turn[t].outcome = "reject"
        /\ clock = 2
        /\ turn[t].chat \in DOMAIN chat_states
        /\ chat_states[turn[t].chat].total_messages = 2
        /\ chat_states[turn[t].chat].total_replies = 1
        /\ chat_states[turn[t].chat].last_reply_time = 1

\* the step in which on_group_message returns at line 566 for a mention or
\* wake command
MentionStep(t) ==
    /\ msgs' = msgs + 1
    /\ turn'[t].pc = "done" /\ turn'[t].outcome = "host_handled"
    /\ \A s \in DOMAIN turn \ {t} : turn'[s] = turn[s]

\* the fields of a conversation's state that C23 names
Counters(s) == <<s.energy, s.total_messages, s.total_replies, s.last_reply_time>>

\* C23: a turn marked as mention or wake command is appended to the buffer
\* and then exits without invoking the judge model, and it leaves energy,
\* total_messages, total_replies and last_reply_time of the conversation
\* unchanged (apart from a pending daily tick).
C23_MentionBypass ==
    [][\A t \in DOMAIN turn :
          MentionStep(t)
              => LET c == turn'[t].chat
                     entry == [role |-> "user",
                               content |-> [sender |-> turn'[t].user, text |-> msgs']]
                     before == GetOr(chat_states, c, ChatState)
                     ticked == GetChatState(Mem, c).cs[c]
                     after == GetOr(chat_states', c, ChatState)
                 IN /\ appended'[c] = Append(GetOr(appended, c, <<>>), entry)
                    /\ message_buffer'[c][Len(message_buffer'[c])] = entry
                    /\ turn'[t].calls = 0 /\ turn'[t].sum_calls = 0
                    /\ judging_sessions' = judging_sessions
                    /\ \/ Counters(after) = Counters(before)
                       \/ Counters(after) = Counters(ticked)]_vars

\* a mention on the day after a judged turn that was accepted: the daily
\* tick restores energy, the counters stay
C23_Witness ==
    \E t \in DOMAIN turn :
        /\ turn[t].pc = "done" /\ turn[t].outcome = "host_handled"
        /\ cfg.enable_favorability
        /\ clock = 2
        /\ turn[t].chat \in DOMAIN chat_states
        /\ chat_states[turn[t].chat].total_messages = 1
        /\ chat_states[turn[t].chat].total_replies = 1
        /\ chat_states[turn[t].chat].last_reset_date = 2
        /\ chat_states[turn[t].chat].energy = EnergyCeiling
        /\ turn[t].user \in DOMAIN chat_states[turn[t].chat].user_interaction_count
        /\ chat_states[turn[t].chat].user_interaction_count[turn[t].user] = 2

\* a weight set sums to 1
SumsToOne(x) == WeightSum(x.num) = x.den

\* C24: after construction every weight set used in a weighted sum sums to
\* 1: the affinity weight set (fav_weights) as well as the reply-decision
\* weights, for every configured set of weight values.
C24_AllWeightSetsSumToOne ==
    (calc.fn = "init" /\ ~calc.raised)
        => SumsToOne(calc.weights) /\ SumsToOne(calc.fav_weights)

\* C25: for every configured reply-decision weight set whose sum differs
\* from 1, construction completes and the resulting weights sum to 1 and
\* keep the pairwise ratios of the configured weights.
C25_NormalizationCompletes ==
    (calc.fn = "init" /\ WeightSum(cfg.weights) # 20)
        => /\ ~calc.raised
           /\ SumsToOne(calc.weights)
           /\ \A i, j \in WeightKeys :
                 calc.weights.num[i] * cfg.weights[j] = calc.weights.num[j] * cfg.weights[i]

\* the step in which _get_or_create_summarized_system_prompt gets the host's
\* answers and goes on to its return or to the summarizer's text_chat
PersonaStep(t) == turn[t].pc = "persona" /\ turn'[t].pc # "persona"

\* C26: when the persona text is empty or shorter than the minimum length
\* (50 characters after stripping), summarize returns it unchanged, does not
\* call the model and writes no cache entry.
C26_ShortPersonaUntouched ==
    [][\A t \in DOMAIN turn :
          (/\ PersonaStep(t)
           /\ \/ turn'[t].original = ""
              \/ PersonaLen(turn'[t].original) < MinPersonaLen)
              => /\ turn'[t].pc = "judge"
                 /\ turn'[t].persona = turn'[t].original
                 /\ turn'[t].sum_calls = 0
                 /\ turn'[t].summary = "none"
                 /\ system_prompt_cache' = system_prompt_cache]_vars

\* a short persona under a key whose cache entry was made from a long one
C26_Witness ==
    \E t \in DOMAIN turn :
        /\ turn[t].pc = "judge"
        /\ turn[t].original = "short persona" /\ turn[t].persona = "short persona"
        /\ turn[t].key \in DOMAIN system_prompt_cache
        /\ system_prompt_cache[turn[t].key].summarized = "summary A"

\* C27: a summarize call for a key whose cache entry was made from the
\* identical original text returns the cached summary without calling the
\* model; a call with a different original text never returns the summary
\* cached for the old text (it returns the new text or calls the model).
C27_CacheHitAndInvalidation ==
    [][\A t \in DOMAIN turn :
          (PersonaStep(t) /\ turn'[t].key \in DOMAIN system_prompt_cache)
              => LET cached == system_prompt_cache[turn'[t].key]
                 IN IF cached.original = turn'[t].original
                    THEN /\ turn'[t].pc = "judge"
                         /\ turn'[t].persona = cached.summarized
                         /\ turn'[t].sum_calls = 0
                         /\ system_prompt_cache' = system_prompt_cache
                    ELSE \/ turn'[t].pc = "summarize" /\ turn'[t].sum_calls = 1
                         \/ /\ turn'[t].pc = "judge"
                            /\ turn'[t].persona = turn'[t].original]_vars

\* a hit: the cached summary is the judge's persona and no call was made
C27_Witness ==
    \E t \in DOMAIN turn :
        /\ turn[t].pc = "judge" /\ turn[t].sum_calls = 0
        /\ turn[t].original = "long persona B"
        /\ turn[t].key \in DOMAIN system_prompt_cache
        /\ system_prompt_cache[turn[t].key].original = "long persona B"
        /\ turn[t].persona = "summary B"

\* the summarization of turn t was attempted and failed
SummaryFailed(t) == turn[t].summary \notin {"none", "ok"}

\* C28: a cache entry is written only when summarization succeeded with
\* non-trivial content: after a summarization that failed the cache holds no
\* entry for that key.
C28_NoEntryAfterFailure ==
    \A t \in DOMAIN turn :
        SummaryFailed(t) => turn[t].key \notin DOMAIN system_prompt_cache

\* C29: for every failure of the summarization call (the model throws, the
\* output is no valid JSON, the summary field is missing or of length <= 10,
\* the provider is missing), summarize returns the original persona text
\* unmodified and raises nothing.
C29_SummarizeDegrades ==
    [][\A t \in DOMAIN turn :
          /\ (turn[t].pc = "summarize" /\ turn'[t] # turn[t])
                 => turn'[t].pc = "judge" /\ turn'[t].summary # "none"
          /\ (SummaryFailed(t))'
                 => /\ turn'[t].pc = "judge"
                    /\ turn'[t].persona = turn'[t].original
                    /\ ~turn'[t].raised /\ ~turn'[t].caught]_vars

\* a summary that is too short came back, and the judge got the original
C29_Witness ==
    \E t \in DOMAIN turn :
        /\ turn[t].pc = "judge" /\ turn[t].summary = "short"
        /\ turn[t].original = "long persona A" /\ turn[t].persona = "long persona A"

LedgerStep(t) ==
    /\ cfg.enable_favorability
    /\ MentionStep(t) \/ (JudgedStep(t) /\ ~turn'[t].caught /\ ~turn'[t].raised)

\* the delta that step applies
StepDelta(t) ==
    IF turn'[t].outcome = "host_handled"
    THEN MentionDelta
    ELSE CalculateFavorabilityChange(turn'[t].result, turn'[t].outcome = "accept")

C32_RecordKept ==
    [][\A c \in DOMAIN chat_states : \A u \in DOMAIN chat_states[c].user_favorability :
          /\ c \in DOMAIN chat_states'
          /\ u \in DOMAIN chat_states'[c].user_favorability]_vars

\* C34: computeDelta returns a value in [-5.0, +3.0] for every judge result
\* with dimension scores in [0,10] and both values of did_reply (and 0.0
\* when affinity is disabled).
C34_DeltaRange ==
    calc.fn = "delta" => (calc.out >= 0 - 2000 /\ calc.out <= 1200)

\* C37: a failed judgment (provider not configured or not found, judge call
\* throws, output unparsable) with affinity enabled is treated as a reject
\* with all five dimension scores 0: the passive update is applied, the
\* sender's local affinity changes by exactly -5.0 (held at 0) from its
\* value after the day's decay, and the sender's interaction count grows
\* by 1.
C37_FailedIsZeroScoreReject ==
    [][\A t \in DOMAIN turn :
          (/\ JudgedStep(t) /\ turn'[t].outcome = "failed"
           /\ ~turn'[t].caught /\ ~turn'[t].raised
           /\ cfg.enable_favorability)
              => LET c == turn'[t].chat
                     u == turn'[t].user
                     before == GetOr(chat_states, c, ChatState)
                     ticked == GetChatState(Mem, c).cs[c]
                     old == GetOr(ticked.user_favorability, u, cfg.initial_favorability)
                 IN /\ ~turn'[t].result.should_reply
                    /\ \A k \in DOMAIN Uniform(0) : turn'[t].result[k] = 0
                    /\ chat_states'[c].energy = PassiveEnergy(ticked.energy)
                    /\ chat_states'[c].total_messages = before.total_messages + 1
                    /\ chat_states'[c].total_replies = before.total_replies
                    /\ GetOr(chat_states'[c].user_favorability, u, 0 - 1)
                           = Max(0, old - 2000)
                    /\ GetOr(chat_states'[c].user_interaction_count, u, 0)
                           = GetOr(before.user_interaction_count, u, 0) + 1]_vars

\* two failed judgments of one sender: the second one is held at 0
C37_Witness ==
    \E t \in DOMAIN turn :
        /\ turn[t].pc = "done" /\ turn[t].outcome = "failed"
        /\ ~turn[t].caught /\ ~turn[t].raised
        /\ cfg.enable_favorability
        /\ turn[t].chat \in DOMAIN chat_states
        /\ turn[t].user \in DOMAIN chat_states[turn[t].chat].user_favorability
        /\ chat_states[turn[t].chat].user_favorability[turn[t].user] = 0
        /\ chat_states[turn[t].chat].user_interaction_count[turn[t].user] = 2
        /\ chat_states[turn[t].chat].total_messages = 2

\* C39: counter invariant: in every reachable state of every conversation
\* 0 <= total_replies <= total_messages, and while the conversation's state
\* is not reset (heartflow_reset deletes it) neither counter decreases.
C39_CountersMonotone ==
    [][\A c \in DOMAIN chat_states' :
          /\ 0 <= chat_states'[c].total_replies
          /\ chat_states'[c].total_replies <= chat_states'[c].total_messages
          /\ c \in DOMAIN chat_states
                => /\ chat_states'[c].total_messages >= chat_states[c].total_messages
                   /\ chat_states'[c].total_replies >= chat_states[c].total_replies]_vars

\* the boundary: every message of the conversation was answered
C39_Witness ==
    \E t \in DOMAIN turn :
        /\ turn[t].pc = "done" /\ turn[t].outcome = "accept"
        /\ turn[t].chat \in DOMAIN chat_states
        /\ chat_states[turn[t].chat].total_messages = 2
        /\ chat_states[turn[t].chat].total_replies = 2

\* C38: judging marker: a session identifier is in judging_sessions in
\* every state in which at least one judgment for that session is in flight,
\* and is absent once every judgment for it has returned or raised, for any
\* interleaving of several turns of the same session.
C38_MarkerIffInFlight ==
    \A c \in {turn[t].chat : t \in DOMAIN turn} \cup judging_sessions :
        c \in judging_sessions <=> \E t \in DOMAIN turn : InJudgment(t) /\ turn[t].chat = c

\* C40: no lost updates: every judged turn that completes adds exactly 1 to
\* total_messages, exactly 1 to total_replies if and only if it was
\* accepted, and (with affinity enabled) exactly 1 to its sender's
\* interaction count, so that N completed turns add N, the number of
\* accepted turns, and each sender's number of turns.
C40_EveryTurnCounted ==
    [][\A t \in DOMAIN turn :
          JudgedStep(t)
              => LET c == turn'[t].chat
                     u == turn'[t].user
                     before == GetOr(chat_states, c, ChatState)
                     after == GetOr(chat_states', c, ChatState)
                 IN /\ after.total_messages = before.total_messages + 1
                    /\ after.total_replies = before.total_replies
                           + (IF turn'[t].outcome = "accept" THEN 1 ELSE 0)
                    /\ cfg.enable_favorability
                          => GetOr(after.user_interaction_count, u, 0)
                                = GetOr(before.user_interaction_count, u, 0) + 1]_vars

\* the step in which a new instance loads the files that a save of the
\* ledger as it is now has written (terminate's save, or heartflow_fav_save
\* with no update since)
RoundTripStep ==
    /\ calc'.fn = "load"
    /\ calc'.instance # Instance
    /\ calc'.files = SaveFavorability(Mem, Files)

\* C33: persistence round trip: saving the ledger and loading it into a
\* fresh instance with the same configuration restores, for every
\* conversation with at least one affinity record, the same user-to-affinity
\* map, interaction counts and last-decay date, and (global affinity
\* enabled) the same global maps; energy and counters are not restored.
C33_RoundTrip ==
    [][RoundTripStep
          => /\ \A c \in DOMAIN chat_states :
                   chat_states[c].user_favorability # EmptyMap
                      => /\ c \in DOMAIN chat_states'
                         /\ chat_states'[c].user_favorability
                                = chat_states[c].user_favorability
                         /\ chat_states'[c].user_interaction_count
                                = chat_states[c].user_interaction_count
                         /\ chat_states'[c].last_favorability_decay
                                = chat_states[c].last_favorability_decay
             /\ \A c \in DOMAIN chat_states' :
                   /\ chat_states'[c].energy = InitialEnergy
                   /\ chat_states'[c].total_messages = 0
                   /\ chat_states'[c].total_replies = 0
                   /\ chat_states'[c].last_reply_time = 0
                   /\ chat_states'[c].last_reset_date = 0
             /\ cfg.enable_global_favorability
                   => /\ global_favorability' = global_favorability
                      /\ global_interaction_count' = global_interaction_count]_vars

\* a new instance that has loaded the records of two senders, one of them
\* with two interactions, the decay date of day 2 and the global maps, after a
\* judged turn had counted a message and used energy
C33_Witness ==
    /\ calc.fn = "load"
    /\ cfg.enable_global_favorability
    /\ \A t \in DOMAIN turn : turn[t].pc = "idle"
    /\ msgs = 2
    /\ "g1" \in DOMAIN chat_states
    /\ DOMAIN chat_states["g1"].user_favorability = {"u1", "u2"}
    /\ chat_states["g1"].user_favorability["u1"] < cfg.initial_favorability
    /\ chat_states["g1"].last_favorability_decay = 2
    /\ chat_states["g1"].total_messages = 0
    /\ chat_states["g1"].energy = InitialEnergy
    /\ DOMAIN global_favorability = {"u1", "u2"}
    /\ global_interaction_count["u2"] = 1

\* the ledger after the step
MemAfter ==
    [cs |-> chat_states', gf |-> global_favorability', gi |-> global_interaction_count']

C36_GlobalDecayOncePerDay ==
    \A u \in DOMAIN global_favorability :
        global_favorability[u]
            <= cfg.initial_favorability
               + GetOr(global_interaction_count, u, 0) * MentionDelta
               + clock * 2 * cfg.favorability_decay_daily

====
